---- MODULE Spec2Model ----
(***************************************************************************)
(* Protocol layer of agent-society: the encrypted SPSP request/response    *)
(* exchange of NostrSpspClient.requestSpspInfo and the latest-record       *)
(* selection used by peer discovery, follow-list lookup and static SPSP    *)
(* info.                                                                   *)
(***************************************************************************)
EXTENDS Integers, Sequences, FiniteSets, TLC

VARIABLES
    secretKey,   \* NostrSpspClient.secretKey is set (constructor argument)
    calls,       \* one record per requestSpspInfo call: promise, closure variables, relays
    selPc,       \* "idle", or "query" while an operation awaits pool.querySync
    pending,     \* the suspended operation: its name, argument, filter and locals
    queried,     \* the events pool.querySync has collected, in the order returned
    ret,         \* what the last completed operation returned, with the list it selected from
    followGraphCache,  \* SocialTrustManager.followGraphCache
    subs,        \* one record per subscribeToPeerUpdates call: position, closure variables
    peerTimestamps,  \* the peerTimestamps map of each subscribeToPeerUpdates call
    scored,      \* the arguments and the TrustScore of the last credit computation
    graph,       \* the follow-list record of each pubkey on the relays
    myFollows,   \* SocialTrustManager.myFollows
    myFollowers, \* SocialTrustManager.myFollowers
    initialized, \* an initialize() call of the manager has completed
    tasks,       \* one record per caller of the manager: the call it is in and its locals
    staleKeys,   \* the pubkeys whose cached set came from a query issued before the last clearCache()
    knownPeers,  \* BootstrapService.config.knownPeers
    connector,   \* the connector admin client: whether it is set, its peers and routes
    boot,        \* the bootstrap() call: position, results, the operations it started
    codec,       \* one call of a builder or of a parser: its argument and its result
    server,      \* NostrSpspServer: its subscription, the requests handled, what it published
    service      \* NostrPeerDiscoveryService: its follow set, its cache, the call in progress

reqVars == <<secretKey, calls>>

selVars == <<selPc, pending, queried, ret, followGraphCache>>

subVars == <<subs, peerTimestamps>>

scoreVars == <<scored>>

trustVars == <<graph, myFollows, myFollowers, initialized, tasks, staleKeys>>

bootVars == <<knownPeers, connector, boot>>

\* The state the request and selection operations do not touch.
restVars ==
    <<subVars, scoreVars, trustVars, bootVars, codec, server, service>>

\* The state the subscriptions do not touch.
notSubVars ==
    <<reqVars, selVars, scoreVars, trustVars, bootVars, codec, server, service>>

\* The state the credit computation does not touch.
notScoreVars ==
    <<reqVars, selVars, subVars, trustVars, bootVars, codec, server, service>>

\* The state the trust manager does not touch, followGraphCache apart.
notTrustVars ==
    <<reqVars, selPc, pending, queried, ret, subVars, scoreVars, bootVars, codec,
      server, service>>

\* The state bootstrap does not touch.
notBootVars ==
    <<reqVars, selVars, subVars, scoreVars, trustVars, codec, server, service>>

\* The state the builders and parsers do not touch.
notCodecVars ==
    <<reqVars, selVars, subVars, scoreVars, trustVars, bootVars, server, service>>

\* The state the SPSP server does not touch.
notServerVars ==
    <<reqVars, selVars, subVars, scoreVars, trustVars, bootVars, codec, service>>

\* The state the discovery service does not touch.
notServiceVars ==
    <<reqVars, selVars, subVars, scoreVars, trustVars, bootVars, codec, server>>

vars == <<secretKey, calls, selPc, pending, queried, ret, followGraphCache,
          subs, peerTimestamps, scored,
          graph, myFollows, myFollowers, initialized, tasks, staleKeys,
          knownPeers, connector, boot, codec, server, service>>

-----------------------------------------------------------------------------
(* Bounds and fixed sets of the model *)

\* Events the transport hands to one call's onevent handler.
MaxDeliveries == 3

\* Events one pool.querySync returns.
MaxLen == 3

\* created_at values of the events on the relays: 1..MaxTime.
MaxTime == 2

\* Events the transport hands to the open subscriptions, in total.
MaxUpdates == 2

\* Mutual followers a credit computation is given: 0..MaxMutual.
MaxMutual == 10

\* Seeds in config.knownPeers.
MaxSeeds == 3

\* Request events handed to the SPSP server.
MaxRequests == 2

\* Subscriptions the SPSP server opens.
MaxOpens == 2

\* Events one query of the discovery service resolves with.
MaxReturned == 2

\* The calls of requestSpspInfo; the requestId generated for a call is its name.
Calls == {"c1", "c2"}

\* relayUrls of the client.
Relays == {"r1", "r2"}

-----------------------------------------------------------------------------
(* Pubkeys: strings validated by PUBKEY_REGEX *)

PubkeyLen == 64

HexLower == {"0", "1", "2", "3", "4", "5", "6", "7", "8", "9",
             "a", "b", "c", "d", "e", "f"}

\* A string is named by the character it repeats and its length
\* ('a'.repeat(64)); Chars gives its characters.
Repeat(ch, n) == [ch |-> ch, n |-> n]

Chars(str) == [i \in 1..str.n |-> str.ch]

\* The string of no characters.
NoKey == Repeat("", 0)

\* The pattern without its length: /^[0-9a-f]*$/
PUBKEY_REGEXMutantAnyLength(str) ==
    LET s == Chars(str) IN \A i \in 1..Len(s) : s[i] \in HexLower

\* /^[0-9a-f]{64}$/
PUBKEY_REGEX(str) ==
    LET s == Chars(str) IN
    /\ Len(s) = PubkeyLen
    /\ \A i \in 1..Len(s) : s[i] \in HexLower

Key(ch) == Repeat(ch, PubkeyLen)

\* Arguments a caller may pass as recipientPubkey: two well-formed keys, one
\* that is too short, one in upper case, one with a non-hex character.
RecipientArgs ==
    {Key("a"), Key("b"), Repeat("a", PubkeyLen - 1), Key("A"), Key("g")}

-----------------------------------------------------------------------------
(* Response events (kind 23195) and parseSpspResponse *)

NoValue == [destinationAccount |-> "", sharedSecret |-> ""]

\* What the transport may deliver to the response subscription: content that
\* does not decrypt, content that decrypts to a payload lacking a field, and
\* well-formed responses for either request id.
ResponseEvents ==
    {[pubkey |-> Key("b"), cipher |-> "garbled",
      payload |-> [requestId |-> "c1", destinationAccount |-> "g.x", sharedSecret |-> "s1"]],
     [pubkey |-> Key("a"), cipher |-> "valid",
      payload |-> [requestId |-> "c1", destinationAccount |-> "g.x", sharedSecret |-> ""]]}
    \cup
    {[pubkey |-> Key("a"), cipher |-> "valid",
      payload |-> [requestId |-> id, destinationAccount |-> d[1], sharedSecret |-> d[2]]] :
        id \in Calls, d \in {<<"g.x", "s1">>, <<"g.y", "s2">>}}

\* Decrypts the content with the conversation key, parses it and validates
\* the fields; throws (ok = FALSE) when any of these fails.
parseSpspResponse(ev) ==
    IF ev.cipher # "valid" THEN [ok |-> FALSE]
    ELSE IF ev.payload.requestId = "" THEN [ok |-> FALSE]
    ELSE IF ev.payload.destinationAccount = "" THEN [ok |-> FALSE]
    ELSE IF ev.payload.sharedSecret = "" THEN [ok |-> FALSE]
    ELSE [ok |-> TRUE,
          requestId |-> ev.payload.requestId,
          destinationAccount |-> ev.payload.destinationAccount,
          sharedSecret |-> ev.payload.sharedSecret]

-----------------------------------------------------------------------------
(* One requestSpspInfo call *)

IdleCall ==
    [pc |-> "idle",               \* idle, publishing, waiting, done
     recipientPubkey |-> NoKey,
     requestId |-> "",
     relay |-> [r \in Relays |-> "none"],  \* none, sent, accepted, acked, failed
     resolved |-> FALSE,          \* let resolved
     sub |-> "none",              \* none, open, closed
     timeoutId |-> "none",        \* none, armed, fired, cleared
     promise |-> "pending",       \* pending, fulfilled, rejected
     value |-> NoValue,
     error |-> "none",            \* none, SpspError, SpspTimeoutError
     errorPubkey |-> NoKey,
     resolveCalls |-> 0,          \* calls of resolve()
     rejectCalls |-> 0,           \* calls of reject() and throws
     closeCalls |-> 0,            \* calls of sub.close()
     clearCalls |-> 0,            \* calls of clearTimeout(timeoutId)
     log |-> << >>,               \* events handed to onevent, in arrival order
     early |-> FALSE,             \* the recipient answered while no subscription was open
     response |-> "none",         \* the SpspResponse waitForResponse resolved with
     outcome |-> "none"]          \* how requestSpspParams ended

\* resolve(v): settles a pending promise, a no-op on a settled one.
Resolve(cl, v) ==
    IF cl.promise = "pending"
    THEN [cl EXCEPT !.promise = "fulfilled", !.value = v,
                    !.resolveCalls = @ + 1, !.pc = "done"]
    ELSE [cl EXCEPT !.resolveCalls = @ + 1]

\* reject(e) or a throw out of the async function.
Reject(cl, e, pk) ==
    IF cl.promise = "pending"
    THEN [cl EXCEPT !.promise = "rejected", !.error = e, !.errorPubkey = pk,
                    !.rejectCalls = @ + 1, !.pc = "done"]
    ELSE [cl EXCEPT !.rejectCalls = @ + 1]

\* clearTimeout(timeoutId): an armed timer will not fire.
ClearTimeout(cl) ==
    [cl EXCEPT !.clearCalls = @ + 1,
               !.timeoutId = IF @ = "armed" THEN "cleared" ELSE @]

\* sub.close()
SubClose(cl) ==
    [cl EXCEPT !.closeCalls = @ + 1, !.sub = "closed"]

\* The executor of the returned promise: subscribeMany, then setTimeout.
OpenSubscription(cl) ==
    [cl EXCEPT !.pc = "waiting", !.sub = "open", !.timeoutId = "armed"]

\* Promise.any over the per-relay publish promises, as seen right after the
\* promise of one relay has settled.
PublishAnyMutantAll(cl) ==
    IF \A r \in Relays : cl.relay[r] = "acked" THEN "fulfilled"
    ELSE IF \E r \in Relays : cl.relay[r] = "failed" THEN "rejected"
    ELSE "pending"

PublishAny(cl) ==
    IF \E r \in Relays : cl.relay[r] = "acked" THEN "fulfilled"
    ELSE IF \A r \in Relays : cl.relay[r] = "failed" THEN "rejected"
    ELSE "pending"

\* The continuation of `await Promise.any(publishPromises)`.
AfterPublish(cl) ==
    IF cl.pc # "publishing" THEN cl
    ELSE IF PublishAny(cl) = "fulfilled" THEN OpenSubscription(cl)
    ELSE IF PublishAny(cl) = "rejected" THEN Reject(cl, "SpspError", NoKey)
    ELSE cl

\* onevent of the response subscription.
OnEventMutantNoGuard(cl, ev) ==
    LET response == parseSpspResponse(ev) IN
    IF ~response.ok THEN cl
    ELSE IF response.requestId # cl.requestId THEN cl
    ELSE Resolve(SubClose(ClearTimeout([cl EXCEPT !.resolved = TRUE])),
                 [destinationAccount |-> response.destinationAccount,
                  sharedSecret |-> response.sharedSecret])

OnEventMutantNoIdCheck(cl, ev) ==
    IF cl.resolved THEN cl
    ELSE
    LET response == parseSpspResponse(ev) IN
    IF ~response.ok THEN cl
    ELSE Resolve(SubClose(ClearTimeout([cl EXCEPT !.resolved = TRUE])),
                 [destinationAccount |-> response.destinationAccount,
                  sharedSecret |-> response.sharedSecret])

OnEventMutantNoClose(cl, ev) ==
    IF cl.resolved THEN cl
    ELSE
    LET response == parseSpspResponse(ev) IN
    IF ~response.ok THEN cl
    ELSE IF response.requestId # cl.requestId THEN cl
    ELSE Resolve(ClearTimeout([cl EXCEPT !.resolved = TRUE]),
                 [destinationAccount |-> response.destinationAccount,
                  sharedSecret |-> response.sharedSecret])

OnEvent(cl, ev) ==
    IF cl.resolved THEN cl
    ELSE
    LET response == parseSpspResponse(ev) IN
    IF ~response.ok THEN cl                                  \* catch: ignore
    ELSE IF response.requestId # cl.requestId THEN cl        \* not our response
    ELSE Resolve(SubClose(ClearTimeout([cl EXCEPT !.resolved = TRUE])),
                 [destinationAccount |-> response.destinationAccount,
                  sharedSecret |-> response.sharedSecret])

\* The setTimeout callback.
OnTimeoutMutantNoReject(cl) ==
    IF cl.resolved THEN cl
    ELSE SubClose([cl EXCEPT !.resolved = TRUE, !.pc = "done"])

OnTimeout(cl) ==
    IF cl.resolved THEN cl
    ELSE Reject(SubClose([cl EXCEPT !.resolved = TRUE]),
                "SpspTimeoutError", cl.recipientPubkey)

-----------------------------------------------------------------------------
(* Actions of the request/response exchange *)

\* requestSpspInfo(recipientPubkey): validation, build, publish to every relay.
RequestSpspInfo(c, rp) ==
    /\ calls[c].pc = "idle"
    /\ calls' = [calls EXCEPT ![c] =
          IF ~secretKey THEN Reject(@, "SpspError", NoKey)
          ELSE IF ~PUBKEY_REGEX(rp) THEN Reject(@, "SpspError", NoKey)
          ELSE [@ EXCEPT !.pc = "publishing",
                         !.recipientPubkey = rp,
                         !.requestId = c,
                         !.relay = [r \in Relays |-> "sent"]]]
    /\ UNCHANGED <<secretKey, selVars, restVars>>

\* A relay accepts the request: from now on the recipient can see it.
RelayAccept(c, r) ==
    /\ calls[c].relay[r] = "sent"
    /\ calls' = [calls EXCEPT ![c].relay[r] = "accepted"]
    /\ UNCHANGED <<secretKey, selVars, restVars>>

\* pool.publish([url], event) fulfils; the await continues when it is the first.
PublishOk(c, r) ==
    /\ calls[c].relay[r] = "accepted"
    /\ calls' = [calls EXCEPT ![c] = AfterPublish([@ EXCEPT !.relay[r] = "acked"])]
    /\ UNCHANGED <<secretKey, selVars, restVars>>

\* pool.publish([url], event) rejects; the await throws when every relay failed.
PublishFail(c, r) ==
    /\ calls[c].relay[r] \in {"sent", "accepted"}
    /\ calls' = [calls EXCEPT ![c] = AfterPublish([@ EXCEPT !.relay[r] = "failed"])]
    /\ UNCHANGED <<secretKey, selVars, restVars>>

\* The recipient answers a request it has seen while the client has not yet
\* subscribed: no subscription receives the response.
EarlyResponse(c) ==
    /\ calls[c].pc = "publishing"
    /\ \E r \in Relays : calls[c].relay[r] \in {"accepted", "acked"}
    /\ ~calls[c].early
    /\ calls' = [calls EXCEPT ![c].early = TRUE]
    /\ UNCHANGED <<secretKey, selVars, restVars>>

\* The transport hands an event to onevent (also one that was queued before
\* the subscription was closed).
DeliverResponse(c, ev) ==
    /\ calls[c].sub # "none"
    /\ Len(calls[c].log) < MaxDeliveries
    /\ calls' = [calls EXCEPT ![c] = OnEvent([@ EXCEPT !.log = Append(@, ev)], ev)]
    /\ UNCHANGED <<secretKey, selVars, restVars>>

\* The timer set by setTimeout fires.
TimerFire(c) ==
    /\ calls[c].timeoutId = "armed"
    /\ calls' = [calls EXCEPT ![c] = OnTimeout([@ EXCEPT !.timeoutId = "fired"])]
    /\ UNCHANGED <<secretKey, selVars, restVars>>

-----------------------------------------------------------------------------
(* Events on the relays: follow lists, peer info, static SPSP info *)

FOLLOW_LIST_KIND == 3
ILP_PEER_INFO_KIND == 10032
SPSP_INFO_KIND == 10047

\* JSON values of event content.
Undefined == [t |-> "undefined"]
JStr(s) == [t |-> "string", v |-> s]
\* A number: v when whole, v + 1/2 otherwise.
JNum(n, whole) == [t |-> "number", v |-> n, whole |-> whole]

\* event.content after JSON.parse: a JSON object, or text that is no JSON.
Obj(fields) == [json |-> "object", fields |-> fields]
NotJson == [json |-> "invalid", fields |-> [k \in {} |-> Undefined]]

\* parsed.<k>: undefined when the object has no such field.
Field(parsed, k) ==
    IF k \in DOMAIN parsed.fields THEN parsed.fields[k] ELSE Undefined

\* typeof x === 'string', without the test of the length.
NonEmptyStringMutantAnyString(x) == x.t = "string"

\* typeof x === 'string' && x.length !== 0
NonEmptyString(x) == x.t = "string" /\ x.v # ""

\* kind:10032 contents: two well-formed (the second with settlementEngine),
\* one lacking ilpAddress.
PeerContents ==
    {Obj([ilpAddress |-> JStr("g.x"), btpEndpoint |-> JStr("wss://x"),
          assetCode |-> JStr("USD"), assetScale |-> JNum(6, TRUE)]),
     Obj([ilpAddress |-> JStr("g.y"), btpEndpoint |-> JStr("wss://y"),
          assetCode |-> JStr("EUR"), assetScale |-> JNum(2, TRUE),
          settlementEngine |-> JStr("xrp-paychan")]),
     Obj([btpEndpoint |-> JStr("wss://z"),
          assetCode |-> JStr("USD"), assetScale |-> JNum(6, TRUE)])}

\* kind:10047 contents: two well-formed, one with an empty sharedSecret.
SpspContents ==
    {Obj([destinationAccount |-> JStr("g.x.recv"), sharedSecret |-> JStr("c2Vj")]),
     Obj([destinationAccount |-> JStr("g.y.recv"), sharedSecret |-> JStr("eHl6")]),
     Obj([destinationAccount |-> JStr("g.x.recv"), sharedSecret |-> JStr("")])}

\* Tag lists of kind:3 events: none, a repeated p tag among another tag, two
\* p tags.
TagLists ==
    {<< >>,
     << <<"p", Key("b")>>, <<"e", Key("e")>>, <<"p", Key("b")>> >>,
     << <<"p", Key("c")>>, <<"p", Key("b")>> >>}

NoEvent ==
    [kind |-> 0, pubkey |-> NoKey, created_at |-> 0, content |-> NotJson, tags |-> << >>]

\* The events a relay can hold that match a filter {kinds: [kind], authors}.
EventsMatching(filter) ==
    {[kind |-> filter.kind, pubkey |-> a, created_at |-> t,
      content |-> b[1], tags |-> b[2]] :
        a \in filter.authors, t \in 1..MaxTime,
        b \in IF filter.kind = FOLLOW_LIST_KIND
                 THEN {<<NotJson, g>> : g \in TagLists}
              ELSE IF filter.kind = ILP_PEER_INFO_KIND
                 THEN {<<c, << >> >> : c \in PeerContents}
              ELSE {<<c, << >> >> : c \in SpspContents}}

Range(s) == {s[i] : i \in 1..Len(s)}

EmptyMap == [k \in {} |-> NoEvent]

\* An object without the member k, and with the member k set to v.
Without(fields, k) == [x \in DOMAIN fields \ {k} |-> fields[x]]

With(fields, k, v) ==
    [x \in DOMAIN fields \cup {k} |-> IF x = k THEN v ELSE fields[x]]

\* Map.set(k, v)
MapSet(m, k, v) == [x \in DOMAIN m \cup {k} |-> IF x = k THEN v ELSE m[x]]

-----------------------------------------------------------------------------
(* Parsers (packages/core/src/events/parsers.ts) *)

\* typeof value === 'object' && value !== null: true of an array too.
isObject(parsed) == parsed.json \in {"object", "array"}

\* ...(settlementEngine !== undefined && { settlementEngine }), were the
\* member always there.
SpreadOptionalMutantDefault(info, settlementEngine) ==
    With(info, "settlementEngine",
         IF settlementEngine # Undefined THEN settlementEngine.v ELSE "")

\* ...(settlementEngine !== undefined && { settlementEngine })
SpreadOptional(info, settlementEngine) ==
    IF settlementEngine # Undefined
    THEN With(info, "settlementEngine", settlementEngine.v)
    ELSE info

\* parseIlpPeerInfo: ok = FALSE stands for a thrown InvalidEventError.
parseIlpPeerInfo(event) ==
    IF event.kind # ILP_PEER_INFO_KIND THEN [ok |-> FALSE]
    ELSE IF event.content.json = "invalid" THEN [ok |-> FALSE]
    ELSE IF ~isObject(event.content) THEN [ok |-> FALSE]
    ELSE
    LET parsed == event.content
        ilpAddress == Field(parsed, "ilpAddress")
        btpEndpoint == Field(parsed, "btpEndpoint")
        settlementEngine == Field(parsed, "settlementEngine")
        assetCode == Field(parsed, "assetCode")
        assetScale == Field(parsed, "assetScale")
    IN
    IF ~NonEmptyString(ilpAddress) THEN [ok |-> FALSE]
    ELSE IF ~NonEmptyString(btpEndpoint) THEN [ok |-> FALSE]
    ELSE IF ~NonEmptyString(assetCode) THEN [ok |-> FALSE]
    ELSE IF assetScale.t # "number" THEN [ok |-> FALSE]
    ELSE IF ~assetScale.whole THEN [ok |-> FALSE]
    ELSE IF settlementEngine # Undefined /\ settlementEngine.t # "string" THEN [ok |-> FALSE]
    ELSE [ok |-> TRUE,
          info |->
            SpreadOptional([ilpAddress |-> ilpAddress.v, btpEndpoint |-> btpEndpoint.v,
                            assetCode |-> assetCode.v, assetScale |-> assetScale.v],
                           settlementEngine)]

\* parseSpspInfo: ok = FALSE stands for a thrown InvalidEventError.
parseSpspInfo(event) ==
    IF event.kind # SPSP_INFO_KIND THEN [ok |-> FALSE]
    ELSE IF event.content.json = "invalid" THEN [ok |-> FALSE]
    ELSE IF ~isObject(event.content) THEN [ok |-> FALSE]
    ELSE
    LET parsed == event.content
        destinationAccount == Field(parsed, "destinationAccount")
        sharedSecret == Field(parsed, "sharedSecret")
    IN
    IF ~NonEmptyString(destinationAccount) THEN [ok |-> FALSE]
    ELSE IF ~NonEmptyString(sharedSecret) THEN [ok |-> FALSE]
    ELSE [ok |-> TRUE,
          info |-> [destinationAccount |-> destinationAccount.v,
                    sharedSecret |-> sharedSecret.v]]

\* extractFollowedPubkeys (src/src/events/parser.ts): the values of the p tags.
RECURSIVE PTagValues(_)
PTagValues(tags) ==
    IF tags = << >> THEN << >>
    ELSE IF Head(tags)[1] = "p" THEN <<Head(tags)[2]>> \o PTagValues(Tail(tags))
    ELSE PTagValues(Tail(tags))

extractFollowedPubkeys(event) ==
    IF event.kind # FOLLOW_LIST_KIND THEN << >> ELSE PTagValues(event.tags)

\* [...new Set(pubkeys)]: first occurrences, in order.
RECURSIVE Dedupe(_)
Dedupe(s) ==
    IF s = << >> THEN << >>
    ELSE LET rest == Dedupe(SelectSeq(Tail(s), LAMBDA x : x # Head(s)))
         IN <<Head(s)>> \o rest

-----------------------------------------------------------------------------
(* Latest-record selection *)

\* The comparator with its operands exchanged: an ascending sort.
SortCompareMutantAscending(a, b) == a.created_at - b.created_at

\* (a, b) => b.created_at - a.created_at
SortCompare(a, b) == b.created_at - a.created_at

\* Array.prototype.sort is stable: an element goes behind every element that
\* does not have to come after it.
RECURSIVE InsertSorted(_, _)
InsertSorted(s, e) ==
    IF s = << >> THEN <<e>>
    ELSE IF SortCompare(e, Head(s)) < 0 THEN <<e>> \o s
    ELSE <<Head(s)>> \o InsertSorted(Tail(s), e)

RECURSIVE SortFrom(_, _, _)
SortFrom(events, i, sorted) ==
    IF i > Len(events) THEN sorted
    ELSE SortFrom(events, i + 1, InsertSorted(sorted, events[i]))

\* events.sort((a, b) => b.created_at - a.created_at)
SortByCreatedAtDesc(events) == SortFrom(events, 1, << >>)

\* sortedEvents[0]
MostRecent(events) == SortByCreatedAtDesc(events)[1]

\* (a, b) => (a.created_at > b.created_at ? a : b)
Reducer(a, b) == IF a.created_at > b.created_at THEN a ELSE b

RECURSIVE ReduceFrom(_, _, _)
ReduceFrom(events, i, acc) ==
    IF i > Len(events) THEN acc
    ELSE ReduceFrom(events, i + 1, Reducer(acc, events[i]))

\* events.reduce(reducer), on a non-empty array
ReduceLatest(events) == ReduceFrom(events, 2, events[1])

\* The grouping loop with >= for >: the last of equally recent events is kept.
GroupStepMutantLastWins(eventsByPubkey, event) ==
    IF event.pubkey \notin DOMAIN eventsByPubkey
          \/ event.created_at >= eventsByPubkey[event.pubkey].created_at
    THEN MapSet(eventsByPubkey, event.pubkey, event)
    ELSE eventsByPubkey

\* The body of the grouping loop of discoverPeers.
GroupStep(eventsByPubkey, event) ==
    IF event.pubkey \notin DOMAIN eventsByPubkey
          \/ event.created_at > eventsByPubkey[event.pubkey].created_at
    THEN MapSet(eventsByPubkey, event.pubkey, event)
    ELSE eventsByPubkey

RECURSIVE GroupFrom(_, _, _)
GroupFrom(events, i, eventsByPubkey) ==
    IF i > Len(events) THEN eventsByPubkey
    ELSE GroupFrom(events, i + 1, GroupStep(eventsByPubkey, events[i]))

\* for (const event of events) { ... }
GroupLatestByPubkey(events) == GroupFrom(events, 1, EmptyMap)

\* The parsing loop without its try/catch.
ParseStepMutantNoCatch(acc, peerPubkey, event) ==
    IF acc.threw # "none" THEN acc
    ELSE IF parseIlpPeerInfo(event).ok
    THEN [acc EXCEPT !.result = MapSet(@, peerPubkey, parseIlpPeerInfo(event).info)]
    ELSE [acc EXCEPT !.threw = "InvalidEventError"]

\* The body of the parsing loop of discoverPeers: try { parse; result.set }
\* catch { }. `threw` is an exception that escaped the loop.
ParseStep(acc, peerPubkey, event) ==
    IF acc.threw # "none" THEN acc
    ELSE IF parseIlpPeerInfo(event).ok
    THEN [acc EXCEPT !.result = MapSet(@, peerPubkey, parseIlpPeerInfo(event).info)]
    ELSE acc

\* for (const [peerPubkey, event] of eventsByPubkey) { ... }: the entries are
\* independent of each other, so the order of the iteration is immaterial.
RECURSIVE ParseEntries(_, _, _)
ParseEntries(eventsByPubkey, keys, acc) ==
    IF keys = {} THEN acc
    ELSE LET k == CHOOSE x \in keys : TRUE
         IN ParseEntries(eventsByPubkey, keys \ {k},
                         ParseStep(acc, k, eventsByPubkey[k]))

-----------------------------------------------------------------------------
(* Operations that select the latest record of a query *)

NoFilter == [kind |-> 0, authors |-> {}]

NoPending ==
    [op |-> "none", pubkey |-> NoKey, filter |-> NoFilter, follows |-> << >>]

NoRet ==
    [op |-> "none",
     pubkey |-> NoKey,
     input |-> << >>,              \* the events the selection was made from
     latest |-> NoEvent,           \* latest / mostRecent
     followSet |-> {},             \* SocialTrustManager.getFollows: Set<string>
     follows |-> << >>,            \* NostrPeerDiscovery.getFollows: string[]
     eventsByPubkey |-> EmptyMap,  \* discoverPeers: the grouped events
     peers |-> EmptyMap,           \* discoverPeers: Map<string, IlpPeerInfo>
     info |-> NoValue,             \* getSpspInfo: SpspInfo
     isNull |-> FALSE,             \* getSpspInfo returned null
     threw |-> "none"]             \* the error the operation rejected with

\* Arguments a caller may pass as pubkey: a well-formed key and one too short.
PubkeyArgs == {Key("a"), Repeat("a", PubkeyLen - 1)}

\* await this.pool.querySync(relays, filter)
Await(op, pk, kind, authors, follows) ==
    /\ selPc' = "query"
    /\ pending' = [op |-> op, pubkey |-> pk,
                   filter |-> [kind |-> kind, authors |-> authors],
                   follows |-> follows]
    /\ queried' = << >>
    /\ ret' = NoRet

Return(r) ==
    /\ selPc' = "idle"
    /\ pending' = NoPending
    /\ queried' = << >>
    /\ ret' = r

\* SocialTrustManager.getFollows(pubkey), up to the query.
TrustGetFollows(pk) ==
    /\ selPc = "idle"
    /\ IF pk \in DOMAIN followGraphCache
       THEN Return([NoRet EXCEPT !.op = "trust.getFollows", !.pubkey = pk,
                                 !.followSet = followGraphCache[pk]])
       ELSE Await("trust.getFollows", pk, FOLLOW_LIST_KIND, {pk}, << >>)
    /\ UNCHANGED <<followGraphCache, reqVars, restVars>>

\* SocialTrustManager.getFollows(pubkey), after the query.
TrustGetFollowsDone ==
    /\ selPc = "query"
    /\ pending.op = "trust.getFollows"
    /\ IF Len(queried) = 0
       THEN /\ followGraphCache' = MapSet(followGraphCache, pending.pubkey, {})
            /\ Return([NoRet EXCEPT !.op = pending.op, !.pubkey = pending.pubkey])
       ELSE LET latest == ReduceLatest(queried)
                follows == Range(extractFollowedPubkeys(latest))
            IN /\ followGraphCache' = MapSet(followGraphCache, pending.pubkey, follows)
               /\ Return([NoRet EXCEPT !.op = pending.op, !.pubkey = pending.pubkey,
                                       !.input = queried, !.latest = latest,
                                       !.followSet = follows])
    /\ UNCHANGED <<reqVars, restVars>>

\* NostrPeerDiscovery.getFollows(pubkey) and discoverPeers(pubkey), up to the
\* query for the follow list.
DiscGetFollows(op, pk) ==
    /\ selPc = "idle"
    /\ IF ~PUBKEY_REGEX(pk)
       THEN Return([NoRet EXCEPT !.op = op, !.pubkey = pk,
                                 !.threw = "PeerDiscoveryError"])
       ELSE Await(op, pk, FOLLOW_LIST_KIND, {pk}, << >>)
    /\ UNCHANGED <<followGraphCache, reqVars, restVars>>

\* getFollows after its query: the p tags of the most recent event.
FollowsOf(events) ==
    IF Len(events) = 0 THEN << >>
    ELSE Dedupe(PTagValues(MostRecent(events).tags))

DiscGetFollowsDone ==
    /\ selPc = "query"
    /\ pending.op = "discovery.getFollows"
    /\ Return([NoRet EXCEPT !.op = pending.op, !.pubkey = pending.pubkey,
                            !.input = queried,
                            !.latest = IF Len(queried) = 0 THEN NoEvent
                                       ELSE MostRecent(queried),
                            !.follows = FollowsOf(queried)])
    /\ UNCHANGED <<followGraphCache, reqVars, restVars>>

\* discoverPeers after getFollows returned: an empty map, or the query for the
\* kind:10032 events of the followed pubkeys.
DiscoverPeersFollows ==
    /\ selPc = "query"
    /\ pending.op = "discovery.discoverPeers"
    /\ pending.filter.kind = FOLLOW_LIST_KIND
    /\ LET follows == FollowsOf(queried) IN
       IF Len(follows) = 0
       THEN Return([NoRet EXCEPT !.op = pending.op, !.pubkey = pending.pubkey])
       ELSE Await(pending.op, pending.pubkey, ILP_PEER_INFO_KIND, Range(follows), follows)
    /\ UNCHANGED <<followGraphCache, reqVars, restVars>>

\* The result of discoverPeers for the events of its second query.
DiscoverResult(events) ==
    LET eventsByPubkey == GroupLatestByPubkey(events)
    IN ParseEntries(eventsByPubkey, DOMAIN eventsByPubkey,
                    [result |-> EmptyMap, threw |-> "none"])

\* discoverPeers after the query for the peer info events.
DiscoverPeersDone ==
    /\ selPc = "query"
    /\ pending.op = "discovery.discoverPeers"
    /\ pending.filter.kind = ILP_PEER_INFO_KIND
    /\ Return([NoRet EXCEPT !.op = pending.op, !.pubkey = pending.pubkey,
                            !.input = queried,
                            !.follows = pending.follows,
                            !.eventsByPubkey = GroupLatestByPubkey(queried),
                            !.peers = DiscoverResult(queried).result,
                            !.threw = DiscoverResult(queried).threw])
    /\ UNCHANGED <<followGraphCache, reqVars, restVars>>

\* NostrSpspClient.getSpspInfo(pubkey), up to the query.
GetSpspInfo(pk) ==
    /\ selPc = "idle"
    /\ IF ~PUBKEY_REGEX(pk)
       THEN Return([NoRet EXCEPT !.op = "spsp.getSpspInfo", !.pubkey = pk,
                                 !.threw = "SpspError"])
       ELSE Await("spsp.getSpspInfo", pk, SPSP_INFO_KIND, {pk}, << >>)
    /\ UNCHANGED <<followGraphCache, reqVars, restVars>>

\* The try/catch around parseSpspInfo, were it to wrap the
\* InvalidEventError like any other error.
ParseOrNullMutantThrow(r, mostRecent) ==
    IF parseSpspInfo(mostRecent).ok
    THEN [r EXCEPT !.info = parseSpspInfo(mostRecent).info]
    ELSE [r EXCEPT !.threw = "SpspError"]

\* try { return parseSpspInfo(mostRecent) } catch: null for an
\* InvalidEventError.
ParseOrNull(r, mostRecent) ==
    IF parseSpspInfo(mostRecent).ok
    THEN [r EXCEPT !.info = parseSpspInfo(mostRecent).info]
    ELSE [r EXCEPT !.isNull = TRUE]

\* getSpspInfo after the query.
GetSpspInfoDone ==
    /\ selPc = "query"
    /\ pending.op = "spsp.getSpspInfo"
    /\ IF Len(queried) = 0
       THEN Return([NoRet EXCEPT !.op = pending.op, !.pubkey = pending.pubkey,
                                 !.isNull = TRUE])
       ELSE LET mostRecent == MostRecent(queried) IN
            Return(ParseOrNull([NoRet EXCEPT !.op = pending.op,
                                             !.pubkey = pending.pubkey,
                                             !.input = queried,
                                             !.latest = mostRecent],
                               mostRecent))
    /\ UNCHANGED <<followGraphCache, reqVars, restVars>>

\* A relay returns one more event that matches the filter of the query.
RelayReturns(e) ==
    /\ selPc = "query"
    /\ Len(queried) < MaxLen
    /\ e \in EventsMatching(pending.filter)
    /\ e \notin Range(queried)
    /\ queried' = Append(queried, e)
    /\ UNCHANGED <<selPc, pending, ret, followGraphCache, reqVars, restVars>>

\* pool.querySync rejects: the catch blocks of getFollows and getSpspInfo wrap
\* the error; the other queries have none.
QueryFails ==
    /\ selPc = "query"
    /\ queried = << >>
    /\ Return([NoRet EXCEPT
          !.op = pending.op, !.pubkey = pending.pubkey,
          !.threw =
             IF pending.op = "spsp.getSpspInfo" THEN "SpspError"
             ELSE IF pending.op = "trust.getFollows" THEN "Error"
             ELSE IF pending.filter.kind = FOLLOW_LIST_KIND THEN "PeerDiscoveryError"
             ELSE "Error"])
    /\ UNCHANGED <<followGraphCache, reqVars, restVars>>

InitSel ==
    /\ selPc = "idle"
    /\ pending = NoPending
    /\ queried = << >>
    /\ ret = NoRet
    /\ followGraphCache = [k \in {} |-> {}]

\* SocialTrustManager, NostrPeerDiscovery and NostrSpspClient share no state:
\* once the cache of the trust manager holds an entry, only the trust manager
\* is driven further.
OtherObjectsOnly == DOMAIN followGraphCache = {}

NextSel ==
    \/ TrustGetFollows(Key("a"))
    \/ TrustGetFollowsDone
    \/ \E pk \in PubkeyArgs :
          \E op \in {"discovery.getFollows", "discovery.discoverPeers"} :
              OtherObjectsOnly /\ DiscGetFollows(op, pk)
    \/ DiscGetFollowsDone
    \/ DiscoverPeersFollows
    \/ DiscoverPeersDone
    \/ \E pk \in PubkeyArgs : OtherObjectsOnly /\ GetSpspInfo(pk)
    \/ GetSpspInfoDone
    \/ \E e \in EventsMatching(pending.filter) : RelayReturns(e)
    \/ QueryFails

-----------------------------------------------------------------------------
(* NostrPeerDiscovery.subscribeToPeerUpdates *)

\* The calls of subscribeToPeerUpdates on one NostrPeerDiscovery.
Subs == {"s1", "s2"}

NoTimestamps == [k \in {} |-> 0]

NoCallbacks == [k \in {} |-> [n |-> 0, created_at |-> 0, info |-> NoValue]]

IdleSub ==
    [pc |-> "idle",               \* idle, getFollows, open, noop, failed
     pubkey |-> NoKey,
     follows |-> << >>,           \* filter.authors
     isUnsubscribed |-> FALSE,
     closeCalls |-> 0,            \* calls of subCloser.close()
     unsubscribes |-> "none",     \* calls of unsubscribe(): none, once, repeated
     delivered |-> {},            \* events handed to onevent before unsubscribe()
     late |-> FALSE,              \* an event was handed to onevent after unsubscribe()
     callbacks |-> NoCallbacks,   \* per author: calls of callback, the last created_at and info
     threw |-> "none"]

\* const peerTimestamps = new Map() is a local of the call: each call has its
\* own map.
ScopeMutantInstance(s) == "s1"

Scope(s) == s

\* peerTimestamps.get(event.pubkey) ?? 0
LastSeen(timestamps, pk) == IF pk \in DOMAIN timestamps THEN timestamps[pk] ELSE 0

\* callback(event.pubkey, info)
Callback(sub, event, info) ==
    LET n == IF event.pubkey \in DOMAIN sub.callbacks
             THEN sub.callbacks[event.pubkey].n ELSE 0
    IN [sub EXCEPT !.callbacks =
            MapSet(@, event.pubkey,
                   [n |-> n + 1, created_at |-> event.created_at, info |-> info])]

\* onevent with < for <= in the stale check.
OnPeerEventMutantStaleEqual(sub, timestamps, event) ==
    IF sub.isUnsubscribed THEN [sub |-> sub, timestamps |-> timestamps]
    ELSE IF event.created_at < LastSeen(timestamps, event.pubkey)
    THEN [sub |-> sub, timestamps |-> timestamps]
    ELSE [sub |-> IF parseIlpPeerInfo(event).ok
                  THEN Callback(sub, event, parseIlpPeerInfo(event).info)
                  ELSE sub,
          timestamps |-> MapSet(timestamps, event.pubkey, event.created_at)]

\* onevent of the subscription.
OnPeerEvent(sub, timestamps, event) ==
    IF sub.isUnsubscribed THEN [sub |-> sub, timestamps |-> timestamps]
    ELSE IF event.created_at <= LastSeen(timestamps, event.pubkey)
    THEN [sub |-> sub, timestamps |-> timestamps]
    ELSE [sub |-> IF parseIlpPeerInfo(event).ok
                  THEN Callback(sub, event, parseIlpPeerInfo(event).info)
                  ELSE sub,
          timestamps |-> MapSet(timestamps, event.pubkey, event.created_at)]

\* unsubscribe() without the isUnsubscribed flag.
UnsubscribeHandleMutantNoFlag(sub) ==
    IF sub.pc = "noop" THEN sub
    ELSE [sub EXCEPT !.closeCalls = @ + 1]

\* unsubscribe() of the returned handle.
UnsubscribeHandle(sub) ==
    IF sub.pc = "noop" THEN sub
    ELSE IF ~sub.isUnsubscribed
    THEN [sub EXCEPT !.isUnsubscribed = TRUE, !.closeCalls = @ + 1]
    ELSE sub

\* What getFollows's pool.querySync returns for a pubkey here: no follow-list
\* event or one.
FollowListResults(pk) ==
    LET events == EventsMatching([kind |-> FOLLOW_LIST_KIND, authors |-> {pk}])
    IN {<< >>} \cup {<<e>> : e \in events}

\* subscribeToPeerUpdates(pubkey, callback), up to await this.getFollows.
SubscribeToPeerUpdates(s, pk) ==
    /\ subs[s].pc = "idle"
    /\ subs' = [subs EXCEPT ![s] =
          IF ~PUBKEY_REGEX(pk)
          THEN [@ EXCEPT !.pc = "failed", !.pubkey = pk, !.threw = "PeerDiscoveryError"]
          ELSE [@ EXCEPT !.pc = "getFollows", !.pubkey = pk]]
    /\ UNCHANGED <<peerTimestamps, notSubVars>>

\* subscribeToPeerUpdates after getFollows returned the follows selected from
\* the events of its query.
SubscribeFollows(s, events) ==
    /\ subs[s].pc = "getFollows"
    /\ events \in FollowListResults(subs[s].pubkey)
    /\ LET follows == FollowsOf(events) IN
       IF Len(follows) = 0
       THEN /\ subs' = [subs EXCEPT ![s].pc = "noop"]
            /\ UNCHANGED peerTimestamps
       ELSE /\ subs' = [subs EXCEPT ![s].pc = "open", ![s].follows = follows]
            /\ peerTimestamps' = [peerTimestamps EXCEPT ![Scope(s)] = NoTimestamps]
    /\ UNCHANGED notSubVars

\* getFollows rejects: subscribeToPeerUpdates rejects with its error.
SubscribeFails(s) ==
    /\ subs[s].pc = "getFollows"
    /\ subs' = [subs EXCEPT ![s].pc = "failed", ![s].threw = "PeerDiscoveryError"]
    /\ UNCHANGED <<peerTimestamps, notSubVars>>

\* The transport hands an event matching the filter to onevent; an event is
\* handed to one subscription once.
DeliverUpdate(s, e) ==
    /\ subs[s].pc = "open"
    /\ e \in EventsMatching([kind |-> ILP_PEER_INFO_KIND,
                             authors |-> Range(subs[s].follows)])
    /\ e \notin subs[s].delivered
    /\ IF subs[s].isUnsubscribed
       THEN ~subs[s].late
       ELSE Cardinality(subs["s1"].delivered) + Cardinality(subs["s2"].delivered)
                < MaxUpdates
    /\ LET after == OnPeerEvent(subs[s], peerTimestamps[Scope(s)], e) IN
       /\ subs' = [subs EXCEPT ![s] =
             IF subs[s].isUnsubscribed
             THEN [after.sub EXCEPT !.late = TRUE]
             ELSE [after.sub EXCEPT !.delivered = @ \cup {e}]]
       /\ peerTimestamps' = [peerTimestamps EXCEPT ![Scope(s)] = after.timestamps]
    /\ UNCHANGED notSubVars

\* The caller calls unsubscribe() on the handle.
Unsubscribe(s) ==
    /\ subs[s].pc \in {"open", "noop"}
    /\ subs[s].unsubscribes # "repeated"
    /\ subs' = [subs EXCEPT ![s] =
          [UnsubscribeHandle(@) EXCEPT
              !.unsubscribes = IF @ = "none" THEN "once" ELSE "repeated"]]
    /\ UNCHANGED <<peerTimestamps, notSubVars>>

InitSub ==
    /\ subs = [s \in Subs |-> IdleSub]
    /\ peerTimestamps = [s \in Subs |-> NoTimestamps]

\* The caller keeps the handle of the first subscription and calls its
\* unsubscribe().
NextSub ==
    \/ \E s \in Subs : \E pk \in PubkeyArgs : SubscribeToPeerUpdates(s, pk)
    \/ \E s \in Subs : \E events \in FollowListResults(subs[s].pubkey) :
          SubscribeFollows(s, events)
    \/ \E s \in Subs : SubscribeFails(s)
    \/ \E s \in Subs :
          \E e \in EventsMatching([kind |-> ILP_PEER_INFO_KIND,
                                   authors |-> Range(subs[s].follows)]) :
              DeliverUpdate(s, e)
    \/ \E s \in {"s1"} : Unsubscribe(s)

-----------------------------------------------------------------------------
(* SocialTrustManager: the credit limit and score of computeTrust *)

DEFAULT_CONFIG ==
    [baseCreditForFollowed |-> 1000,
     mutualFollowerBonus |-> 100,
     maxMutualBonus |-> 500,
     baseCreditForUnfollowed |-> 0,
     maxCreditLimit |-> 10000]

\* Configurations: non-negative credit values, maxCreditLimit above 0.
Configs ==
    [baseCreditForFollowed : {0, 3, 1000},
     mutualFollowerBonus : {0, 100},
     maxMutualBonus : {0, 500},
     baseCreditForUnfollowed : {0, 50},
     maxCreditLimit : {1, 1200, 10000}]

\* a / b on bigint, b > 0: the quotient truncated towards zero.
BigIntDiv(a, b) == IF a >= 0 THEN a \div b ELSE 0 - ((0 - a) \div b)

\* The mutual bonus without its cap.
CappedBonusMutantNoCap(config, mutualFollowers) ==
    mutualFollowers * config.mutualFollowerBonus

\* cappedBonus
CappedBonus(config, mutualFollowers) ==
    LET mutualBonus == mutualFollowers * config.mutualFollowerBonus
    IN IF mutualBonus > config.maxMutualBonus THEN config.maxMutualBonus
       ELSE mutualBonus

\* The credit limit without the cap at maxCreditLimit.
CreditLimitMutantNoMax(config, isFollowed, followsUs, mutualFollowers) ==
    LET base == IF isFollowed THEN config.baseCreditForFollowed
                ELSE config.baseCreditForUnfollowed
        withBonus == base + CappedBonus(config, mutualFollowers)
    IN IF followsUs /\ isFollowed
       THEN withBonus + BigIntDiv(config.baseCreditForFollowed, 2)
       ELSE withBonus

\* creditLimit of computeTrust
CreditLimit(config, isFollowed, followsUs, mutualFollowers) ==
    LET base == IF isFollowed THEN config.baseCreditForFollowed
                ELSE config.baseCreditForUnfollowed
        withBonus == base + CappedBonus(config, mutualFollowers)
        withFollowBack ==
            IF followsUs /\ isFollowed
            THEN withBonus + BigIntDiv(config.baseCreditForFollowed, 2)
            ELSE withBonus
    IN IF withFollowBack > config.maxCreditLimit THEN config.maxCreditLimit
       ELSE withFollowBack

\* Number((creditLimit * 100n) / this.config.maxCreditLimit)
Score(config, creditLimit) == BigIntDiv(creditLimit * 100, config.maxCreditLimit)

\* The TrustScore computeTrust returns.
TrustScoreOf(config, peerPubkey, isFollowed, followsUs, mutualFollowers) ==
    LET creditLimit == CreditLimit(config, isFollowed, followsUs, mutualFollowers)
    IN [pubkey |-> peerPubkey,
        isFollowed |-> isFollowed,
        followsUs |-> followsUs,
        mutualFollowers |-> mutualFollowers,
        creditLimit |-> creditLimit,
        score |-> Score(config, creditLimit)]

NoScored ==
    [done |-> FALSE, config |-> DEFAULT_CONFIG,
     result |-> TrustScoreOf(DEFAULT_CONFIG, NoKey, FALSE, FALSE, 0)]

\* The credit computation of computeTrust for a configuration and the values
\* computeTrust read from the social graph. The computation keeps no state:
\* one computation per behaviour covers every call.
ComputeCredit(config, isFollowed, followsUs, mutualFollowers) ==
    /\ ~scored.done
    /\ scored' = [done |-> TRUE, config |-> config,
                  result |-> TrustScoreOf(config, Key("b"), isFollowed, followsUs,
                                          mutualFollowers)]
    /\ UNCHANGED notScoreVars

InitScore == scored = NoScored

NextScore ==
    \E config \in Configs \cup {DEFAULT_CONFIG} :
        \E isFollowed \in BOOLEAN, followsUs \in BOOLEAN :
            \E mutualFollowers \in 0..MaxMutual :
                ComputeCredit(config, isFollowed, followsUs, mutualFollowers)

-----------------------------------------------------------------------------
(* SocialTrustManager: initialize, computeTrust, clearCache *)

\* The manager's own pubkey and the peers it is asked about.
MyPubkey == Key("a")

Peers == {Key("b"), Key("c")}

\* The callers of the manager.
Tasks == {"t1", "t2"}

NoRecord == [exists |-> FALSE, follows |-> {}]

FollowList(follows) == [exists |-> TRUE, follows |-> follows]

\* Social graphs: the latest kind:3 record of each pubkey, if it has one.
Graphs ==
    {[pk \in {MyPubkey} \cup Peers |->
        IF pk = MyPubkey THEN g[1] ELSE IF pk = Key("b") THEN g[2] ELSE g[3]] :
     g \in {<<FollowList({Key("b"), Key("c")}), FollowList({MyPubkey, Key("c")}),
              FollowList({MyPubkey})>>,
            <<FollowList({Key("b")}), FollowList({Key("c")}), FollowList({})>>,
            <<FollowList({}), FollowList({MyPubkey}), NoRecord>>,
            <<NoRecord, NoRecord, FollowList({Key("b")})>>,
            <<FollowList({Key("b")}), FollowList({}), FollowList({Key("b")})>>}}

RECURSIVE PTags(_)
PTags(S) ==
    IF S = {} THEN << >>
    ELSE LET k == CHOOSE x \in S : TRUE IN <<<<"p", k>>>> \o PTags(S \ {k})

\* The kind:3 event of a pubkey on the relays.
FollowEvent(g, pk) ==
    [kind |-> FOLLOW_LIST_KIND, pubkey |-> pk, created_at |-> 1,
     content |-> NotJson, tags |-> PTags(g[pk].follows)]

\* pool.querySync(relays, {kinds: [FOLLOW_LIST_KIND], authors: [pk]})
QueryAuthor(g, pk) == IF g[pk].exists THEN <<FollowEvent(g, pk)>> ELSE << >>

RECURSIVE EventsOfAuthors(_, _)
EventsOfAuthors(g, S) ==
    IF S = {} THEN << >>
    ELSE LET k == CHOOSE x \in S : TRUE
         IN <<FollowEvent(g, k)>> \o EventsOfAuthors(g, S \ {k})

\* pool.querySync(relays, {kinds: [FOLLOW_LIST_KIND], '#p': [pk]})
QueryTagged(g, pk) ==
    EventsOfAuthors(g, {a \in DOMAIN g : g[a].exists /\ pk \in g[a].follows})

\* getFollows after its query: the set that is cached and returned.
FollowSetOf(events) ==
    IF Len(events) = 0 THEN {}
    ELSE Range(extractFollowedPubkeys(ReduceLatest(events)))

\* if (cached) with a test for a non-empty set.
CacheHitMutantNonEmpty(cache, pk) == pk \in DOMAIN cache /\ cache[pk] # {}

\* const cached = this.followGraphCache.get(pubkey); if (cached)
CacheHit(cache, pk) == pk \in DOMAIN cache

\* countMutualFollowers
CountMutualFollowers(peerFollows, mine) == Cardinality(peerFollows \cap mine)

\* The function getTrustCalculator() returns, applied to (pubkey, isFollowed)
\* in a state of the manager.
TrustCalculator(config, cache, mine, followers, pubkey, isFollowed) ==
    IF ~isFollowed THEN config.baseCreditForUnfollowed
    ELSE LET base == config.baseCreditForFollowed
             withFollowBack ==
                 IF pubkey \in followers
                 THEN base + BigIntDiv(config.baseCreditForFollowed, 2)
                 ELSE base
             credit ==
                 IF CacheHit(cache, pubkey)
                 THEN withFollowBack
                        + CappedBonus(config, CountMutualFollowers(cache[pubkey], mine))
                 ELSE withFollowBack
         IN IF credit > config.maxCreditLimit THEN config.maxCreditLimit ELSE credit

IdleTask ==
    [op |-> "none",               \* none, initialize, computeTrust
     pc |-> "idle",               \* idle, loadMyFollows, getFollows, initialize, done, failed
     peer |-> NoKey,              \* peerPubkey
     isFollowed |-> FALSE,
     followsUs |-> FALSE,
     followsPending |-> FALSE,    \* initialize: the query of loadMyFollows is out
     followersPending |-> FALSE,  \* initialize: the query of loadMyFollowers is out
     served |-> "none",           \* where peerFollows came from: cache, query
     peerFollows |-> {},
     result |-> TrustScoreOf(DEFAULT_CONFIG, NoKey, FALSE, FALSE, 0),
     afterInitialize |-> FALSE,   \* an initialize() had completed when the call was made
     overtaken |-> FALSE,         \* clearCache() was called while the query of getFollows was out
     threw |-> "none"]

\* computeTrust from the credit computation on: the TrustScore returned.
Finish(task, peerFollows, served, mine) ==
    [task EXCEPT
        !.pc = "done", !.served = served, !.peerFollows = peerFollows,
        !.result = TrustScoreOf(DEFAULT_CONFIG, task.peer, task.isFollowed,
                                task.followsUs,
                                CountMutualFollowers(peerFollows, mine))]

\* computeTrust from the reads of myFollows and myFollowers up to the await
\* of getFollows(peerPubkey), which returns at once when the set is cached.
Lookup(task, cache, mine, followers) ==
    LET t == [task EXCEPT !.isFollowed = task.peer \in mine,
                          !.followsUs = task.peer \in followers]
    IN IF CacheHit(cache, task.peer)
       THEN Finish(t, cache[task.peer], "cache", mine)
       ELSE [t EXCEPT !.pc = "getFollows"]

\* The query of a getFollows call of this caller is out.
QueryOut(task) == task.pc \in {"loadMyFollows", "getFollows"} \/ task.followsPending

\* staleKeys after followGraphCache.set(pk, ...) by a getFollows call.
Stored(stale, pk, overtaken) ==
    IF overtaken THEN stale \cup {pk} ELSE stale \ {pk}

\* The caller is in no call and no load it started is still running.
Free(t) ==
    /\ tasks[t].pc \in {"idle", "done", "failed"}
    /\ ~tasks[t].followsPending
    /\ ~tasks[t].followersPending

\* computeTrust(peerPubkey), up to its first relay query.
ComputeTrust(t, p) ==
    /\ Free(t)
    /\ LET task == [IdleTask EXCEPT !.op = "computeTrust", !.peer = p,
                                    !.afterInitialize = initialized] IN
       IF myFollows = {} /\ ~CacheHit(followGraphCache, MyPubkey)
       THEN /\ tasks' = [tasks EXCEPT ![t] = [task EXCEPT !.pc = "loadMyFollows"]]
            /\ UNCHANGED myFollows
       ELSE LET mine == IF myFollows = {} THEN followGraphCache[MyPubkey]
                        ELSE myFollows
            IN /\ myFollows' = mine
               /\ tasks' = [tasks EXCEPT ![t] =
                     Lookup(task, followGraphCache, mine, myFollowers)]
    /\ UNCHANGED <<followGraphCache, graph, myFollowers, initialized, staleKeys,
                   notTrustVars>>

\* The query of loadMyFollows returns: getFollows caches the set,
\* loadMyFollows assigns it and computeTrust goes on.
LoadMyFollowsReturns(t) ==
    /\ tasks[t].pc = "loadMyFollows"
    /\ LET follows == FollowSetOf(QueryAuthor(graph, MyPubkey))
           cache == MapSet(followGraphCache, MyPubkey, follows)
       IN /\ followGraphCache' = cache
          /\ myFollows' = follows
          /\ tasks' = [tasks EXCEPT ![t] = Lookup(@, cache, follows, myFollowers)]
          /\ staleKeys' = Stored(staleKeys, MyPubkey, tasks[t].overtaken)
    /\ UNCHANGED <<graph, myFollowers, initialized, notTrustVars>>

\* The query of getFollows(peerPubkey) returns: the set is cached and
\* computeTrust returns its TrustScore.
GetFollowsReturns(t) ==
    /\ tasks[t].pc = "getFollows"
    /\ LET follows == FollowSetOf(QueryAuthor(graph, tasks[t].peer)) IN
       /\ followGraphCache' = MapSet(followGraphCache, tasks[t].peer, follows)
       /\ tasks' = [tasks EXCEPT ![t] = Finish(@, follows, "query", myFollows)]
       /\ staleKeys' = Stored(staleKeys, tasks[t].peer, tasks[t].overtaken)
    /\ UNCHANGED <<graph, myFollows, myFollowers, initialized, notTrustVars>>

\* pool.querySync rejects: computeTrust rejects with the error.
TrustQueryFails(t) ==
    /\ tasks[t].pc \in {"loadMyFollows", "getFollows"}
    /\ tasks' = [tasks EXCEPT ![t].pc = "failed", ![t].threw = "Error"]
    /\ UNCHANGED <<followGraphCache, graph, myFollows, myFollowers, initialized,
                   staleKeys, notTrustVars>>

\* initialize(): loadMyFollows() and loadMyFollowers() are started together.
Initialize(t) ==
    /\ Free(t)
    /\ LET hit == CacheHit(followGraphCache, MyPubkey) IN
       /\ tasks' = [tasks EXCEPT ![t] =
             [IdleTask EXCEPT !.op = "initialize", !.pc = "initialize",
                              !.followsPending = ~hit,
                              !.followersPending = TRUE]]
       /\ myFollows' = IF hit THEN followGraphCache[MyPubkey] ELSE myFollows
    /\ UNCHANGED <<followGraphCache, graph, myFollowers, initialized, staleKeys,
                   notTrustVars>>

\* What Promise.all makes of the two loads of initialize().
Settle(task) ==
    IF task.pc = "initialize" /\ ~task.followsPending /\ ~task.followersPending
    THEN [task EXCEPT !.pc = "done"]
    ELSE task

\* initialize(): the query of loadMyFollows returns.
InitFollowsReturns(t) ==
    /\ tasks[t].op = "initialize"
    /\ tasks[t].followsPending
    /\ LET follows == FollowSetOf(QueryAuthor(graph, MyPubkey)) IN
       /\ followGraphCache' = MapSet(followGraphCache, MyPubkey, follows)
       /\ myFollows' = follows
    /\ staleKeys' = Stored(staleKeys, MyPubkey, tasks[t].overtaken)
    /\ tasks' = [tasks EXCEPT ![t] = Settle([@ EXCEPT !.followsPending = FALSE])]
    /\ initialized' = (initialized \/ tasks'[t].pc = "done")
    /\ UNCHANGED <<graph, myFollowers, notTrustVars>>

\* initialize(): the query of loadMyFollowers returns.
InitFollowersReturns(t) ==
    /\ tasks[t].op = "initialize"
    /\ tasks[t].followersPending
    /\ myFollowers' = {e.pubkey : e \in Range(QueryTagged(graph, MyPubkey))}
    /\ tasks' = [tasks EXCEPT ![t] = Settle([@ EXCEPT !.followersPending = FALSE])]
    /\ initialized' = (initialized \/ tasks'[t].pc = "done")
    /\ UNCHANGED <<followGraphCache, graph, myFollows, staleKeys, notTrustVars>>

\* initialize(): one of its queries rejects; Promise.all rejects at once and
\* the other load goes on.
InitQueryFails(t, followsQuery) ==
    /\ tasks[t].op = "initialize"
    /\ IF followsQuery THEN tasks[t].followsPending ELSE tasks[t].followersPending
    /\ tasks' = [tasks EXCEPT ![t] =
          [@ EXCEPT !.pc = "failed", !.threw = "Error",
                    !.followsPending = IF followsQuery THEN FALSE ELSE @,
                    !.followersPending = IF followsQuery THEN @ ELSE FALSE]]
    /\ UNCHANGED <<followGraphCache, graph, myFollows, myFollowers, initialized,
                   staleKeys, notTrustVars>>

\* clearCache()
ClearCache ==
    /\ followGraphCache' = [k \in {} |-> {}]
    /\ myFollows' = {}
    /\ myFollowers' = {}
    /\ staleKeys' = {}
    /\ tasks' = [t \in Tasks |->
          IF QueryOut(tasks[t]) THEN [tasks[t] EXCEPT !.overtaken = TRUE]
          ELSE tasks[t]]
    /\ UNCHANGED <<graph, initialized, notTrustVars>>

InitTrust ==
    /\ graph \in Graphs
    /\ myFollows = {}
    /\ myFollowers = {}
    /\ initialized = FALSE
    /\ tasks = [t \in Tasks |-> IdleTask]
    /\ staleKeys = {}

NextTrust ==
    \/ \E t \in Tasks : \E p \in Peers : ComputeTrust(t, p)
    \/ \E t \in Tasks : LoadMyFollowsReturns(t)
    \/ \E t \in Tasks : GetFollowsReturns(t)
    \/ \E t \in Tasks : TrustQueryFails(t)
    \/ \E t \in Tasks : Initialize(t)
    \/ \E t \in Tasks : InitFollowsReturns(t)
    \/ \E t \in Tasks : InitFollowersReturns(t)
    \/ \E t \in Tasks : \E followsQuery \in BOOLEAN : InitQueryFails(t, followsQuery)
    \/ ClearCache

\* One caller that makes its calls one after the other: clearCache() is called
\* between two calls, never during one.
NextTrustSeq ==
    \E t \in {"t1"} :
        \/ \E p \in Peers : ComputeTrust(t, p)
        \/ LoadMyFollowsReturns(t)
        \/ GetFollowsReturns(t)
        \/ TrustQueryFails(t)
        \/ Initialize(t)
        \/ InitFollowsReturns(t)
        \/ InitFollowersReturns(t)
        \/ \E followsQuery \in BOOLEAN : InitQueryFails(t, followsQuery)
        \/ Free(t) /\ ClearCache

\* The states of the other specifications: no caller of the manager.
NoTrust ==
    /\ graph = CHOOSE g \in Graphs : TRUE
    /\ myFollows = {}
    /\ myFollowers = {}
    /\ initialized = FALSE
    /\ tasks = [t \in Tasks |-> IdleTask]
    /\ staleKeys = {}

-----------------------------------------------------------------------------
(* BootstrapService.bootstrap *)

\* Seeds a configuration can list: two with a well-formed pubkey, one with a
\* pubkey that is too short, each with its own relay.
Seeds ==
    {[pubkey |-> Key("b"), relayUrl |-> "wss://b", btpEndpoint |-> "btp://b"],
     [pubkey |-> Repeat("c", PubkeyLen - 1), relayUrl |-> "wss://m",
      btpEndpoint |-> "btp://m"],
     [pubkey |-> Key("c"), relayUrl |-> "wss://c", btpEndpoint |-> "btp://c"]}

SeedLists == UNION {[1..n -> Seeds] : n \in 0..MaxSeeds}

\* What pool.querySync([relayUrl], filter) of queryPeerInfo can return: no
\* event or one kind:10032 event of the seed.
PeerInfoResults(seed) ==
    {<< >>} \cup
    {<<e>> : e \in EventsMatching([kind |-> ILP_PEER_INFO_KIND,
                                   authors |-> {seed.pubkey}])}

\* The SpspInfo a handshake can resolve with.
SpspInfos ==
    {[destinationAccount |-> "g.x.recv", sharedSecret |-> "c2Vj"]}

NoPeerInfo ==
    [ilpAddress |-> "", btpEndpoint |-> "", assetCode |-> "", assetScale |-> 0]

IdleBoot ==
    [pc |-> "idle",               \* idle, running, done, failed
     k |-> 0,                     \* index of the seed of the current iteration
     step |-> "none",             \* the operation awaited: query, spsp, addPeer, addRoute, publish
     peerInfo |-> NoPeerInfo,     \* bootstrapWithPeer: peerInfo
     spspInfo |-> NoValue,        \* bootstrapWithPeer: spspInfo
     results |-> << >>,           \* results
     log |-> << >>,               \* operations started and completed, in order
     caught |-> << >>,            \* the errors bootstrap() caught, in order
     threw |-> "none"]

Entry(k, op, at, relays) == [seed |-> k, op |-> op, at |-> at, relays |-> relays]

\* An operation of bootstrapWithPeer is started for seed k, on these relays.
Start(b, k, op, relays) ==
    [b EXCEPT !.k = k, !.step = op, !.log = Append(@, Entry(k, op, "start", relays))]

\* The operation awaited completes.
Complete(b, at) ==
    [b EXCEPT !.log = Append(@, Entry(b.k, b.step, at, {}))]

\* The relay list handed to the pool for seed k, were it the relays of every
\* seed.
RelaysForMutantAll(peers, k) == {peers[i].relayUrl : i \in DOMAIN peers}

\* [knownPeer.relayUrl]: the relay list handed to pool.querySync, to the
\* NostrSpspClient of the handshake and to pool.publish.
RelaysFor(peers, k) == {peers[k].relayUrl}

\* The errors an awaited operation can reject with: the pool's query
\* (queryPeerInfo), the parser, requestSpspInfo, the admin client, the
\* pool's publish.
Causes ==
    [query |-> {"Error"}, spsp |-> {"SpspError"}, addPeer |-> {"Error"},
     addRoute |-> {"Error"}, publish |-> {"Error"}]

\* The catch blocks of the steps, were they to rethrow what they caught.
BootstrapErrorMutantRethrow(cause) == [name |-> cause, cause |-> "none"]

\* new BootstrapError(message, cause)
BootstrapError(cause) == [name |-> "BootstrapError", cause |-> cause]

\* bootstrap() without the try/catch around bootstrapWithPeer.
CatchMutantNone(b) == [b EXCEPT !.pc = "failed", !.threw = "BootstrapError"]

\* bootstrap() leaving the loop at the first failure.
CatchMutantBreak(b) == [b EXCEPT !.pc = "done", !.step = "none"]

\* catch (error) { console.warn(...) } of bootstrap(): the loop goes on.
Catch(b) == b

\* The loop of bootstrap() from seed k on, up to the first await of a relay:
\* a seed with a malformed pubkey fails at once and the loop goes to the next.
RECURSIVE BeginFrom(_, _, _)
BeginFrom(b, peers, k) ==
    IF b.pc # "running" THEN b
    ELSE IF k > Len(peers)
    THEN [b EXCEPT !.pc = "done", !.k = k, !.step = "none"]
    ELSE IF ~PUBKEY_REGEX(peers[k].pubkey)
    THEN BeginFrom(Catch([b EXCEPT !.k = k,
                             !.log = Append(@, Entry(k, "validate", "failed", {})),
                             !.caught = Append(@, [seed |-> k,
                                                   error |-> BootstrapError("none")])]),
                   peers, k + 1)
    ELSE Start([b EXCEPT !.log = Append(@, Entry(k, "validate", "ok", {})),
                         !.peerInfo = NoPeerInfo, !.spspInfo = NoValue],
               k, "query", RelaysFor(peers, k))

\* The operation awaited throws: bootstrapWithPeer rejects with a
\* BootstrapError, bootstrap() catches it and goes to the next seed.
FailSeed(b, peers, error) ==
    BeginFrom(Catch([Complete(b, "failed") EXCEPT
                        !.caught = Append(@, [seed |-> b.k, error |-> error])]),
              peers, b.k + 1)

\* bootstrapWithPeer returns: results.push(result), next seed.
SucceedSeed(b, peers) ==
    LET done == Complete(b, "ok")
        result == [knownPeer |-> peers[b.k], peerInfo |-> b.peerInfo,
                   spspInfo |-> b.spspInfo]
    IN BeginFrom([done EXCEPT !.results = Append(@, result)], peers, b.k + 1)

Awaits(op) == boot.pc = "running" /\ boot.step = op

\* bootstrap()
Bootstrap ==
    /\ boot.pc = "idle"
    /\ boot' = BeginFrom([IdleBoot EXCEPT !.pc = "running"], knownPeers, 1)
    /\ UNCHANGED <<knownPeers, connector, notBootVars>>

\* queryPeerInfo: the query of the seed's relay returns.
PeerInfoReturns(events) ==
    /\ Awaits("query")
    /\ events \in PeerInfoResults(knownPeers[boot.k])
    /\ boot' =
          IF Len(events) = 0
          THEN FailSeed(boot, knownPeers, BootstrapError("none"))
          ELSE IF ~parseIlpPeerInfo(MostRecent(events)).ok
          THEN FailSeed(boot, knownPeers, BootstrapError("InvalidEventError"))
          ELSE Start([Complete(boot, "ok") EXCEPT
                         !.peerInfo = parseIlpPeerInfo(MostRecent(events)).info],
                     boot.k, "spsp", RelaysFor(knownPeers, boot.k))
    /\ UNCHANGED <<knownPeers, connector, notBootVars>>

\* addPeerToConnector when an admin client is set, publishOurInfo otherwise.
AfterHandshake(b, peers, admin) ==
    IF admin THEN Start(b, b.k, "addPeer", {})
    ELSE Start(b, b.k, "publish", RelaysFor(peers, b.k))

\* directSpspHandshake: requestSpspInfo resolves.
HandshakeResolves(info) ==
    /\ Awaits("spsp")
    /\ boot' = AfterHandshake([Complete(boot, "ok") EXCEPT !.spspInfo = info],
                              knownPeers, connector.set)
    /\ UNCHANGED <<knownPeers, connector, notBootVars>>

\* The peer id addPeerToConnector derives from the seed's pubkey.
PeerId(seed) ==
    <<"nostr-",
      Repeat(seed.pubkey.ch, IF seed.pubkey.n < 16 THEN seed.pubkey.n ELSE 16)>>

\* connectorAdmin.addPeer resolves.
AddPeerOk ==
    /\ Awaits("addPeer")
    /\ connector' = [connector EXCEPT !.peers = @ \cup {PeerId(knownPeers[boot.k])}]
    /\ boot' = Start(Complete(boot, "ok"), boot.k, "addRoute", {})
    /\ UNCHANGED <<knownPeers, notBootVars>>

\* connectorAdmin.addRoute resolves.
AddRouteOk ==
    /\ Awaits("addRoute")
    /\ connector' = [connector EXCEPT
          !.routes = @ \cup {<<boot.peerInfo.ilpAddress, PeerId(knownPeers[boot.k])>>}]
    /\ boot' = Start(Complete(boot, "ok"), boot.k, "publish",
                     RelaysFor(knownPeers, boot.k))
    /\ UNCHANGED <<knownPeers, notBootVars>>

\* publishOurInfo: pool.publish resolves and bootstrapWithPeer returns.
PublishInfoOk ==
    /\ Awaits("publish")
    /\ boot' = SucceedSeed(boot, knownPeers)
    /\ UNCHANGED <<knownPeers, connector, notBootVars>>

\* The operation awaited rejects: the relay query, the SPSP request (timeout
\* or error), addPeer, addRoute or the publish.
OperationFails(cause) ==
    /\ boot.pc = "running"
    /\ boot.step \in DOMAIN Causes
    /\ cause \in Causes[boot.step]
    /\ boot' = FailSeed(boot, knownPeers, BootstrapError(cause))
    /\ UNCHANGED <<knownPeers, connector, notBootVars>>

NoConnector == [set |-> FALSE, peers |-> {}, routes |-> {}]

InitBoot ==
    /\ knownPeers \in SeedLists
    /\ connector \in {[NoConnector EXCEPT !.set = admin] : admin \in BOOLEAN}
    /\ boot = IdleBoot

NextBoot ==
    \/ Bootstrap
    \/ \E events \in UNION {PeerInfoResults(seed) : seed \in Seeds} :
          PeerInfoReturns(events)
    \/ \E info \in SpspInfos : HandshakeResolves(info)
    \/ AddPeerOk
    \/ AddRouteOk
    \/ PublishInfoOk
    \/ \E cause \in UNION {Causes[op] : op \in DOMAIN Causes} : OperationFails(cause)

\* The states of the other specifications: no bootstrap service.
NoBoot ==
    /\ knownPeers = << >>
    /\ connector = NoConnector
    /\ boot = IdleBoot

-----------------------------------------------------------------------------
(* Builders (packages/core/src/events/builders.ts) and the parsers applied
   to single events *)

\* IlpPeerInfo values: settlementEngine is optional.
IlpPeerInfos ==
    LET required == [ilpAddress : {"g.x", "g.y"}, btpEndpoint : {"wss://x", "wss://y"},
                     assetCode : {"USD", "XRP"}, assetScale : {0, 6, 9}]
    IN required \cup
       {[k \in DOMAIN r \cup {"settlementEngine"} |->
            IF k = "settlementEngine" THEN se ELSE r[k]] :
          r \in required, se \in {"xrp-paychan", "eth"}}

\* SpspInfo values.
SpspInfoValues ==
    [destinationAccount : {"g.x.recv", "g.y.recv"}, sharedSecret : {"c2Vj", "eHl6"}]

\* JSON.stringify(info) as JSON.parse reads it back: one member per own
\* property, a number for assetScale and strings for the others.
JSONStringify(info) ==
    Obj([k \in DOMAIN info |->
            IF k = "assetScale" THEN JNum(info[k], TRUE) ELSE JStr(info[k])])

\* finalizeEvent(template, secretKey): the template with the pubkey of the key.
finalizeEvent(template) ==
    [kind |-> template.kind, pubkey |-> Key("a"), created_at |-> template.created_at,
     content |-> template.content, tags |-> template.tags]

buildIlpPeerInfoEvent(info, now) ==
    finalizeEvent([kind |-> ILP_PEER_INFO_KIND, content |-> JSONStringify(info),
                   tags |-> << >>, created_at |-> now])

buildSpspInfoEvent(info, now) ==
    finalizeEvent([kind |-> SPSP_INFO_KIND, content |-> JSONStringify(info),
                   tags |-> << >>, created_at |-> now])

\* JSON values that are no string and no number, and JSON texts that are no
\* object with members.
JNull == [t |-> "null"]
JsonArray == [json |-> "array", fields |-> [k \in {} |-> Undefined]]
JsonNull == [json |-> "null", fields |-> [k \in {} |-> Undefined]]
JsonNumber == [json |-> "number", fields |-> [k \in {} |-> Undefined]]

\* The contents a parser is given: the well-formed ones, each with one
\* member missing, of another type, empty or added, and texts that are no
\* JSON object.
ContentsFrom(wellFormed, strings) ==
    LET bases == {c.fields : c \in wellFormed} IN
    {Obj(f) : f \in bases}
    \cup {Obj(Without(f, k)) : f \in bases, k \in strings \cup {"assetScale"}}
    \cup {Obj(With(f, k, v)) : f \in bases, k \in strings,
                               v \in {JStr(""), JNum(1, TRUE), JNull}}
    \cup {Obj(With(f, "assetScale", v)) :
             f \in bases, v \in {JNum(1, FALSE), JStr("6"), JNull}}
    \cup {Obj(With(f, "settlementEngine", v)) :
             f \in bases, v \in {JNum(1, TRUE), JNull, JStr("")}}
    \cup {Obj(With(f, "extra", JStr("x"))) : f \in bases}
    \cup {NotJson, JsonArray, JsonNull, JsonNumber}

WellFormedPeerContents ==
    {c \in PeerContents : "ilpAddress" \in DOMAIN c.fields}

WellFormedSpspContents ==
    {c \in SpspContents : c.fields["sharedSecret"] # JStr("")}

ParserEvents ==
    {[kind |-> k, pubkey |-> Key("b"), created_at |-> 1, content |-> c,
      tags |-> << >>] :
        k \in {ILP_PEER_INFO_KIND, SPSP_INFO_KIND},
        c \in ContentsFrom(WellFormedPeerContents,
                           {"ilpAddress", "btpEndpoint", "assetCode"})
              \cup ContentsFrom(WellFormedSpspContents,
                                {"destinationAccount", "sharedSecret"})}

NoCodec ==
    [pc |-> "idle",               \* idle, built, parsed
     op |-> "none",               \* the builder or the parser called
     info |-> NoValue,            \* the value given to the builder
     event |-> NoEvent,           \* the event built, the event given to the parser
     out |-> [ok |-> FALSE]]      \* what the parser returned; ok = FALSE: it threw

\* buildIlpPeerInfoEvent(info, secretKey)
BuildIlpPeerInfoEvent(info, now) ==
    /\ codec.pc = "idle"
    /\ codec' = [NoCodec EXCEPT !.pc = "built", !.op = "buildIlpPeerInfoEvent",
                                !.info = info,
                                !.event = buildIlpPeerInfoEvent(info, now)]
    /\ UNCHANGED notCodecVars

\* buildSpspInfoEvent(info, secretKey)
BuildSpspInfoEvent(info, now) ==
    /\ codec.pc = "idle"
    /\ codec' = [NoCodec EXCEPT !.pc = "built", !.op = "buildSpspInfoEvent",
                                !.info = info,
                                !.event = buildSpspInfoEvent(info, now)]
    /\ UNCHANGED notCodecVars

\* The parser of the kind is applied to the event built.
ParseBuilt ==
    /\ codec.pc = "built"
    /\ codec' = [codec EXCEPT
          !.pc = "parsed",
          !.out = IF codec.op = "buildIlpPeerInfoEvent"
                  THEN parseIlpPeerInfo(codec.event)
                  ELSE parseSpspInfo(codec.event)]
    /\ UNCHANGED notCodecVars

\* parseIlpPeerInfo(event)
ParseIlpPeerInfo(event) ==
    /\ codec.pc = "idle"
    /\ codec' = [NoCodec EXCEPT !.pc = "parsed", !.op = "parseIlpPeerInfo",
                                !.event = event, !.out = parseIlpPeerInfo(event)]
    /\ UNCHANGED notCodecVars

\* parseSpspInfo(event)
ParseSpspInfo(event) ==
    /\ codec.pc = "idle"
    /\ codec' = [NoCodec EXCEPT !.pc = "parsed", !.op = "parseSpspInfo",
                                !.event = event, !.out = parseSpspInfo(event)]
    /\ UNCHANGED notCodecVars

NextCodec ==
    \/ \E info \in IlpPeerInfos : \E now \in 1..MaxTime : BuildIlpPeerInfoEvent(info, now)
    \/ \E info \in SpspInfoValues : \E now \in 1..MaxTime : BuildSpspInfoEvent(info, now)
    \/ ParseBuilt
    \/ \E event \in ParserEvents : ParseIlpPeerInfo(event)
    \/ \E event \in ParserEvents : ParseSpspInfo(event)

-----------------------------------------------------------------------------
(* NostrSpspServer (src/spsp/nostr-spsp-server.ts) *)

SPSP_REQUEST_KIND == 23194
SPSP_RESPONSE_KIND == 23195

\* The pubkey of the server's secret key.
ServerPubkey == Key("a")

\* nip44.getConversationKey(secretKey, pubkey): the key two parties share,
\* named by their pubkeys; it throws for a pubkey that is no curve point.
ConversationKey(mine, theirs) == {mine, theirs}

\* nip44.encrypt(plaintext, conversationKey)
Encrypt(plaintext, conversationKey) ==
    [key |-> conversationKey, plaintext |-> plaintext]

\* Text that is no NIP-44 payload.
Garbage == [key |-> {}, plaintext |-> [json |-> "invalid", method |-> ""]]

\* The plaintexts of requests as JSON.parse reads them: a spsp_setup request,
\* a request of another method, the JSON text null, text that is no JSON.
Plaintexts ==
    {[json |-> "object", method |-> "spsp_setup"],
     [json |-> "object", method |-> "other"],
     [json |-> "null", method |-> ""],
     [json |-> "invalid", method |-> ""]}

\* The kind:23194 events the subscription can hand to the server: from two
\* requesters, encrypted for the server, for somebody else, or garbage; and
\* garbage from an author whose pubkey is no curve point.
RequestEvents ==
    {[id |-> <<a, pt.json, pt.method>>, pubkey |-> a, kind |-> SPSP_REQUEST_KIND,
      content |-> Encrypt(pt, ConversationKey(a, ServerPubkey))] :
        a \in {Key("b"), Key("c")}, pt \in Plaintexts}
    \cup
    {[id |-> <<a, "object", "forOther">>, pubkey |-> a, kind |-> SPSP_REQUEST_KIND,
      content |-> Encrypt([json |-> "object", method |-> "spsp_setup"],
                          ConversationKey(a, Key("d")))] :
        a \in {Key("b"), Key("c")}}
    \cup
    {[id |-> <<a, "garbage", "">>, pubkey |-> a, kind |-> SPSP_REQUEST_KIND,
      content |-> Garbage] :
        a \in {Key("b"), Repeat("b", PubkeyLen - 1)}}

IdleServer ==
    [subscription |-> FALSE,      \* this.subscription is set
     opened |-> 0,                \* calls of pool.subscribeMany
     closed |-> 0,                \* calls of subscription.close()
     ownPool |-> FALSE,           \* this.ownPool: no pool was given to the constructor
     poolCloses |-> 0,            \* calls of pool.close(this.relays)
     handled |-> << >>,           \* the events handed to onevent, in order
     generated |-> << >>,         \* the ids of the requests secretGenerator was called for
     published |-> << >>,         \* the events given to pool.publish, in order
     logged |-> 0,                \* rejections of handleRequest caught by onevent
     escaped |-> FALSE]           \* an error left onevent

\* The tags of a response, were they to name the server itself.
ResponseTagsMutantSelf(requestEvent) ==
    << <<"p", ServerPubkey>>, <<"e", requestEvent.id>> >>

\* tags: [['p', requestEvent.pubkey], ['e', requestEvent.id]]
ResponseTags(requestEvent) ==
    << <<"p", requestEvent.pubkey>>, <<"e", requestEvent.id>> >>

\* sendResponse(requestEvent, response): pool.publish returns one promise per
\* relay, so the await of its result does not reject.
sendResponse(srv, requestEvent, response) ==
    IF ~PUBKEY_REGEX(requestEvent.pubkey) THEN [srv |-> srv, threw |-> TRUE]
    ELSE [srv |-> [srv EXCEPT !.published = Append(@,
                      [kind |-> SPSP_RESPONSE_KIND, pubkey |-> ServerPubkey,
                       tags |-> ResponseTags(requestEvent),
                       content |-> Encrypt(response,
                                     ConversationKey(ServerPubkey, requestEvent.pubkey))])],
          threw |-> FALSE]

sendErrorResponse(srv, requestEvent, code) ==
    sendResponse(srv, requestEvent, [result_type |-> "spsp_setup", error |-> code])

\* catch (err) { await this.sendErrorResponse(event, 'INTERNAL_ERROR', ...) }
HandleCatch(srv, event) == sendErrorResponse(srv, event, "INTERNAL_ERROR")

\* handleRequest(event)
handleRequest(srv, event) ==
    IF ~PUBKEY_REGEX(event.pubkey) THEN HandleCatch(srv, event)
    ELSE IF event.content.key # ConversationKey(ServerPubkey, event.pubkey)
    THEN HandleCatch(srv, event)
    ELSE LET request == event.content.plaintext IN
    IF request.json = "invalid" THEN HandleCatch(srv, event)
    ELSE IF request.json = "null" THEN HandleCatch(srv, event)
    ELSE IF request.method # "spsp_setup"
    THEN LET sent == sendErrorResponse(srv, event, "UNKNOWN_METHOD") IN
         IF sent.threw THEN HandleCatch(sent.srv, event) ELSE sent
    ELSE LET made == [srv EXCEPT !.generated = Append(@, event.id)]
             sent == sendResponse(made, event,
                        [result_type |-> "spsp_setup",
                         result |-> [shared_secret |-> Len(made.generated)]])
         IN IF sent.threw THEN HandleCatch(sent.srv, event) ELSE sent

\* onevent: this.handleRequest(event).catch((err) => console.error(...))
Onevent(srv, event) ==
    LET h == handleRequest(srv, event) IN
    IF h.threw THEN [h.srv EXCEPT !.logged = @ + 1] ELSE h.srv

\* startListening() without its test of this.subscription.
startListeningMutantNoGuard(srv) ==
    [srv EXCEPT !.subscription = TRUE, !.opened = @ + 1]

\* startListening()
startListening(srv) ==
    IF srv.subscription THEN srv
    ELSE [srv EXCEPT !.subscription = TRUE, !.opened = @ + 1]

\* stopListening()
stopListening(srv) ==
    IF srv.subscription
    THEN [srv EXCEPT !.subscription = FALSE, !.closed = @ + 1]
    ELSE srv

\* The caller calls startListening(); at most MaxOpens subscriptions are
\* opened in a behaviour.
StartListening ==
    /\ server.opened < MaxOpens
    /\ server' = startListening(server)
    /\ UNCHANGED notServerVars

\* The caller calls stopListening().
StopListening ==
    /\ server' = stopListening(server)
    /\ UNCHANGED notServerVars

\* close()
close(srv) ==
    LET stopped == stopListening(srv) IN
    IF stopped.ownPool THEN [stopped EXCEPT !.poolCloses = @ + 1] ELSE stopped

\* The caller calls close(); a pool is closed at most MaxOpens times in a
\* behaviour.
Close ==
    /\ server.poolCloses < MaxOpens
    /\ server' = close(server)
    /\ UNCHANGED notServerVars

\* The subscription hands a request to onevent; the pool hands an event over
\* once.
DeliverRequest(event) ==
    /\ server.subscription
    /\ Len(server.handled) < MaxRequests
    /\ event \notin Range(server.handled)
    /\ server' = Onevent([server EXCEPT !.handled = Append(@, event)], event)
    /\ UNCHANGED notServerVars

InitServer == server = IdleServer

NextServer ==
    \/ StartListening
    \/ StopListening
    \/ Close
    \/ \E event \in RequestEvents : DeliverRequest(event)

-----------------------------------------------------------------------------
(* NostrPeerDiscoveryService (src/discovery) and the tag parser of
   src/events/parser.ts *)

\* Tag lists of kind:10032 events: one with the ilp and btp tags, one that
\* lacks the btp tag, one whose ilp tag has no value and whose btp tag has an
\* empty value.
PeerTagLists ==
    {<< <<"ilp", "g.x">>, <<"btp", "wss://x">> >>,
     << <<"ilp", "g.y">> >>,
     << <<"ilp">>, <<"btp", "">> >>}

\* The events of the relays that match a filter of the service.
ServiceEvents(filter) ==
    {[kind |-> filter.kind, pubkey |-> a, created_at |-> t,
      content |-> NotJson, tags |-> g] :
        a \in filter.authors, t \in 1..MaxTime,
        g \in IF filter.kind = FOLLOW_LIST_KIND THEN TagLists ELSE PeerTagLists}

\* What queryEvents(filter) resolves with: up to MaxReturned distinct events
\* that match, in any order; the empty list also when its timer fires first.
QueryEvents(filter) ==
    {q \in UNION {[1..n -> ServiceEvents(filter)] : n \in 0..MaxReturned} :
        \A i, j \in DOMAIN q : i # j => q[i] # q[j]}

\* event.tags.find((t) => t[0] === name): the first such tag, or undefined
\* (found = FALSE) when there is none.
RECURSIVE FindTag(_, _)
FindTag(tags, name) ==
    IF tags = << >> THEN [found |-> FALSE, tag |-> << >>]
    ELSE IF Head(tags)[1] = name THEN [found |-> TRUE, tag |-> Head(tags)]
    ELSE FindTag(Tail(tags), name)

\* tag[1]: the value of a tag, undefined for a tag of one element.
TagValue(tag) == IF Len(tag) >= 2 THEN JStr(tag[2]) ELSE Undefined

\* parseIlpPeerInfo of src/events/parser.ts: null (ok = FALSE) for another
\* kind and for an event without ilp or btp tag.
parseIlpPeerInfoTags(event) ==
    IF event.kind # ILP_PEER_INFO_KIND THEN [ok |-> FALSE]
    ELSE IF ~FindTag(event.tags, "ilp").found \/ ~FindTag(event.tags, "btp").found
    THEN [ok |-> FALSE]
    ELSE [ok |-> TRUE,
          info |-> [pubkey |-> event.pubkey,
                    ilpAddress |-> TagValue(FindTag(event.tags, "ilp").tag),
                    btpEndpoint |-> TagValue(FindTag(event.tags, "btp").tag),
                    createdAt |-> event.created_at]]

IdleService ==
    [pc |-> "idle",               \* idle, refresh, peers
     op |-> "none",               \* refreshFollowList, discoverPeers
     followedPubkeys |-> {},      \* this.followedPubkeys
     peerInfoCache |-> [k \in {} |-> NoPeerInfo],   \* this.peerInfoCache
     input |-> << >>,             \* what the last query resolved with
     pubkeys |-> << >>,           \* refreshFollowList: the list returned
     peers |-> << >>,             \* discoverPeers: the list returned
     completed |-> "none"]        \* the operation that returned last

\* refreshFollowList after its query.
Refreshed(svc, events) ==
    IF Len(events) = 0
    THEN [svc EXCEPT !.input = events, !.pubkeys = << >>]
    ELSE LET latest == ReduceLatest(events)
             pubkeys == extractFollowedPubkeys(latest)
         IN [svc EXCEPT !.input = events, !.pubkeys = pubkeys,
                        !.followedPubkeys = Range(pubkeys)]

\* The loop of discoverPeers over the events of its query.
RECURSIVE CollectPeers(_, _, _)
CollectPeers(svc, events, i) ==
    IF i > Len(events) THEN svc
    ELSE LET peerInfo == parseIlpPeerInfoTags(events[i]) IN
         IF peerInfo.ok
         THEN CollectPeers(
                 [svc EXCEPT
                     !.peerInfoCache = MapSet(@, peerInfo.info.pubkey, peerInfo.info),
                     !.peers = Append(@, [info |-> peerInfo.info, isFollowed |-> TRUE])],
                 events, i + 1)
         ELSE CollectPeers(svc, events, i + 1)

\* refreshFollowList(), up to its query.
RefreshFollowList ==
    /\ service.pc = "idle"
    /\ service' = [service EXCEPT !.pc = "refresh", !.op = "refreshFollowList"]
    /\ UNCHANGED notServiceVars

\* discoverPeers(), up to the query of refreshFollowList.
ServiceDiscoverPeers ==
    /\ service.pc = "idle"
    /\ service' = [service EXCEPT !.pc = "refresh", !.op = "discoverPeers"]
    /\ UNCHANGED notServiceVars

FollowFilter == [kind |-> FOLLOW_LIST_KIND, authors |-> {MyPubkey}]

\* The query of refreshFollowList resolves: refreshFollowList returns, and
\* discoverPeers returns [] or goes on to its own query.
FollowListReturns(events) ==
    /\ service.pc = "refresh"
    /\ events \in QueryEvents(FollowFilter)
    /\ LET svc == Refreshed(service, events) IN
       service' =
          IF service.op = "refreshFollowList"
          THEN [svc EXCEPT !.pc = "idle", !.completed = "refreshFollowList"]
          ELSE IF svc.followedPubkeys = {}
          THEN [svc EXCEPT !.pc = "idle", !.completed = "discoverPeers",
                           !.input = << >>, !.peers = << >>]
          ELSE [svc EXCEPT !.pc = "peers"]
    /\ UNCHANGED notServiceVars

PeerFilter(svc) == [kind |-> ILP_PEER_INFO_KIND, authors |-> svc.followedPubkeys]

\* The query of discoverPeers resolves.
PeerInfoEventsReturn(events) ==
    /\ service.pc = "peers"
    /\ events \in QueryEvents(PeerFilter(service))
    /\ service' = [CollectPeers([service EXCEPT !.input = events, !.peers = << >>],
                                events, 1)
                     EXCEPT !.pc = "idle", !.completed = "discoverPeers"]
    /\ UNCHANGED notServiceVars

InitService == service = IdleService

NextService ==
    \/ RefreshFollowList
    \/ ServiceDiscoverPeers
    \/ \E events \in QueryEvents(FollowFilter) : FollowListReturns(events)
    \/ \E events \in QueryEvents(PeerFilter(service)) : PeerInfoEventsReturn(events)

\* The states of the other specifications: no builder or parser called, a
\* server that was not started, a service that was not called.
InitCodec == codec = NoCodec /\ InitServer /\ InitService

InitReq ==
    /\ secretKey \in BOOLEAN
    /\ calls = [c \in Calls |-> IdleCall]
    /\ InitSel
    /\ InitSub
    /\ InitScore
    /\ NoTrust
    /\ NoBoot
    /\ InitCodec

\* One call at a time.
NextReq ==
    \E c \in {"c1"} :
        \/ \E rp \in RecipientArgs : RequestSpspInfo(c, rp)
        \/ \E r \in Relays : RelayAccept(c, r)
        \/ \E r \in Relays : PublishOk(c, r)
        \/ \E r \in Relays : PublishFail(c, r)
        \/ EarlyResponse(c)
        \/ \E ev \in ResponseEvents : DeliverResponse(c, ev)
        \/ TimerFire(c)

Spec == InitReq /\ [][NextReq]_vars

\* Two calls on one client at the same time, to the same or to different
\* recipients; the second relay never answers, and the transport hands each
\* subscription any of the responses, MaxDeliveries in total.
InitConcurrent == InitReq /\ secretKey

NextConcurrent ==
    \E c \in Calls :
        \/ \E rp \in {Key("a"), Key("b")} : RequestSpspInfo(c, rp)
        \/ RelayAccept(c, "r1")
        \/ PublishOk(c, "r1")
        \/ PublishFail(c, "r1")
        \/ \E ev \in ResponseEvents :
              /\ Len(calls["c1"].log) + Len(calls["c2"].log) < MaxDeliveries
              /\ DeliverResponse(c, ev)
        \/ TimerFire(c)

SpecConcurrent == InitConcurrent /\ [][NextConcurrent]_vars

\* setTimeout: an armed timer fires unless it is cleared.
SpecFair == Spec /\ \A c \in Calls : WF_vars(TimerFire(c))

\* The operations that query the relays and select the latest record.
InitLatest ==
    /\ secretKey = TRUE
    /\ calls = [c \in Calls |-> IdleCall]
    /\ InitSel
    /\ InitSub
    /\ InitScore
    /\ NoTrust
    /\ NoBoot
    /\ InitCodec

SpecLatest == InitLatest /\ [][NextSel]_vars

\* The live subscriptions of one NostrPeerDiscovery.
InitUpdates ==
    /\ secretKey = TRUE
    /\ calls = [c \in Calls |-> IdleCall]
    /\ InitSel
    /\ InitSub
    /\ InitScore
    /\ NoTrust
    /\ NoBoot
    /\ InitCodec

SpecUpdates == InitUpdates /\ [][NextSub]_vars

\* The credit computation of SocialTrustManager.computeTrust.
InitCredit ==
    /\ secretKey = TRUE
    /\ calls = [c \in Calls |-> IdleCall]
    /\ InitSel
    /\ InitSub
    /\ InitScore
    /\ NoTrust
    /\ NoBoot
    /\ InitCodec

SpecCredit == InitCredit /\ [][NextScore]_vars

\* The callers of one SocialTrustManager.
InitManager ==
    /\ secretKey = TRUE
    /\ calls = [c \in Calls |-> IdleCall]
    /\ InitSel
    /\ InitSub
    /\ InitScore
    /\ InitTrust
    /\ NoBoot
    /\ InitCodec

SpecTrust == InitManager /\ [][NextTrust]_vars

SpecTrustSeq == InitManager /\ [][NextTrustSeq]_vars

\* One bootstrap() call of a BootstrapService.
InitBootstrap ==
    /\ secretKey = TRUE
    /\ calls = [c \in Calls |-> IdleCall]
    /\ InitSel
    /\ InitSub
    /\ InitScore
    /\ NoTrust
    /\ InitBoot
    /\ InitCodec

SpecBootstrap == InitBootstrap /\ [][NextBoot]_vars

\* The calls of the operations that take a pubkey, each up to its first
\* await.
NextValidation ==
    \/ \E pk \in RecipientArgs : RequestSpspInfo("c1", pk)
    \/ \E pk \in RecipientArgs : GetSpspInfo(pk)
    \/ \E pk \in RecipientArgs :
          \E op \in {"discovery.getFollows", "discovery.discoverPeers"} :
              DiscGetFollows(op, pk)
    \/ \E pk \in RecipientArgs : SubscribeToPeerUpdates("s1", pk)
    \/ Bootstrap

SpecValidation == InitBootstrap /\ [][NextValidation]_vars

\* One call of a builder followed by the parser, or of a parser alone.
SpecCodec == InitLatest /\ [][NextCodec]_vars

\* One NostrSpspServer, constructed with a pool or without one, and the
\* requests its subscription delivers.
InitListening ==
    /\ secretKey = TRUE
    /\ calls = [c \in Calls |-> IdleCall]
    /\ InitSel
    /\ InitSub
    /\ InitScore
    /\ NoTrust
    /\ NoBoot
    /\ codec = NoCodec
    /\ server \in {[IdleServer EXCEPT !.ownPool = own] : own \in BOOLEAN}
    /\ InitService

SpecServer == InitListening /\ [][NextServer]_vars

\* The calls of one NostrPeerDiscoveryService, one at a time.
SpecService == InitLatest /\ [][NextService]_vars

-----------------------------------------------------------------------------
(* Properties of the request/response exchange *)

\* A response that decrypts, has every field and carries the id of call c.
Acceptable(c, ev) ==
    /\ ev.cipher = "valid"
    /\ ev.payload.destinationAccount # ""
    /\ ev.payload.sharedSecret # ""
    /\ ev.payload.requestId = c

AcceptableAt(c) == {i \in 1..Len(calls[c].log) : Acceptable(c, calls[c].log[i])}

Visible(c) == \E r \in Relays : calls[c].relay[r] \in {"accepted", "acked"}

\* C1: a published requestSpspInfo call is settled at most once, by resolve()
\* with SPSP parameters or by reject() with SpspTimeoutError and never by both,
\* whatever the order of incoming responses and the timer.
C1_SettledOnce ==
    \A c \in Calls :
        LET cl == calls[c] IN
        /\ cl.resolveCalls + cl.rejectCalls <= 1
        /\ (cl.promise = "fulfilled") = (cl.resolveCalls = 1)
        /\ (cl.promise = "rejected") = (cl.rejectCalls = 1)
        /\ cl.promise = "fulfilled" => cl.value # NoValue /\ cl.error = "none"
        /\ cl.promise = "rejected" /\ cl.sub # "none" =>
              cl.error = "SpspTimeoutError" /\ cl.value = NoValue

\* C1 witness: the call timed out and a matching, decryptable response was
\* delivered after that.
C1_Witness ==
    \E c \in Calls :
        /\ calls[c].error = "SpspTimeoutError"
        /\ AcceptableAt(c) # {}
        /\ calls[c].resolveCalls = 0

\* C2: while the call waits, a response that fails decryption or validation or
\* carries another request id changes nothing but the arrival log, and the call
\* resolves with the fields of the first acceptable response in arrival order.
C2_State ==
    \A c \in Calls :
        LET cl == calls[c] IN
        /\ cl.pc = "waiting" => AcceptableAt(c) = {}
        /\ cl.pc = "waiting" =>
              cl.promise = "pending" /\ cl.sub = "open" /\ cl.timeoutId = "armed"
        /\ cl.promise = "fulfilled" =>
              \E i \in AcceptableAt(c) :
                  /\ \A j \in AcceptableAt(c) : i <= j
                  /\ cl.value =
                        [destinationAccount |-> cl.log[i].payload.destinationAccount,
                         sharedSecret |-> cl.log[i].payload.sharedSecret]

C2_Step ==
    \A c \in Calls :
        ( /\ calls[c].pc = "waiting"
          /\ Len(calls'[c].log) = Len(calls[c].log) + 1
          /\ ~Acceptable(c, calls'[c].log[Len(calls'[c].log)]) )
        => calls'[c] = [calls[c] EXCEPT !.log = calls'[c].log]

C2_InvalidResponsesIgnored == []C2_State /\ [][C2_Step]_vars

\* C2 witness: the call resolved after an undecryptable and a non-matching
\* response had arrived first.
C2_Witness ==
    \E c \in Calls :
        /\ calls[c].promise = "fulfilled"
        /\ Len(calls[c].log) = 3
        /\ calls[c].log[1].cipher = "garbled"
        /\ calls[c].log[2].payload.requestId # c
        /\ AcceptableAt(c) = {3}

\* C3: the subscription is closed exactly once on the path that settles the
\* call, the timer is cleared exactly once on success, and a settled call has
\* no open subscription and no armed timer, whatever arrives later.
C3_TornDownOnce ==
    \A c \in Calls :
        LET cl == calls[c] IN
        /\ cl.closeCalls <= 1 /\ cl.clearCalls <= 1
        /\ cl.promise = "fulfilled" =>
              /\ cl.closeCalls = 1 /\ cl.clearCalls = 1
              /\ cl.sub = "closed" /\ cl.timeoutId = "cleared"
        /\ cl.error = "SpspTimeoutError" =>
              /\ cl.closeCalls = 1 /\ cl.clearCalls = 0
              /\ cl.sub = "closed" /\ cl.timeoutId = "fired"
        /\ cl.promise # "pending" => cl.sub # "open" /\ cl.timeoutId # "armed"
        /\ cl.promise = "pending" => cl.closeCalls = 0 /\ cl.clearCalls = 0

\* C3 witness: the call resolved and a duplicate matching response arrived
\* afterwards.
C3_Witness ==
    \E c \in Calls :
        /\ calls[c].promise = "fulfilled"
        /\ Cardinality(AcceptableAt(c)) >= 2
        /\ calls[c].closeCalls = 1

\* C4: a timeout rejection happens only when the timer has fired and carries
\* the recipient pubkey; a fired timer means the call was rejected with
\* SpspTimeoutError; after that rejection the call never resolves; and a
\* waiting call is eventually settled.
C4_State ==
    \A c \in Calls :
        LET cl == calls[c] IN
        /\ cl.error = "SpspTimeoutError" =>
              /\ cl.timeoutId = "fired"
              /\ cl.errorPubkey = cl.recipientPubkey
              /\ cl.promise = "rejected"
        /\ cl.timeoutId = "fired" => cl.error = "SpspTimeoutError"

C4_Step ==
    \A c \in Calls :
        calls[c].error = "SpspTimeoutError" =>
            /\ calls'[c].error = "SpspTimeoutError"
            /\ calls'[c].promise = "rejected"
            /\ calls'[c].resolveCalls = 0

C4_Timeout ==
    /\ []C4_State
    /\ [][C4_Step]_vars
    /\ \A c \in Calls : (calls[c].pc = "waiting") ~> (calls[c].promise # "pending")

\* C4 witness: rejected with SpspTimeoutError after only unusable responses.
C4_Witness ==
    \E c \in Calls :
        /\ calls[c].error = "SpspTimeoutError"
        /\ calls[c].errorPubkey = Key("b")
        /\ Len(calls[c].log) = 2
        /\ AcceptableAt(c) = {}

\* C5: the request is offered to every relay; the call waits for responses as
\* soon as one relay has acknowledged, whatever the others do; when every
\* relay failed it is rejected with SpspError with no subscription, no timer
\* and no resolve.
C5_PublishAny ==
    \A c \in Calls :
        LET cl == calls[c] IN
        /\ cl.requestId # "" => \A r \in Relays : cl.relay[r] # "none"
        /\ (\E r \in Relays : cl.relay[r] = "acked") = (cl.sub # "none")
        /\ (\E r \in Relays : cl.relay[r] = "acked") => cl.pc \in {"waiting", "done"}
        /\ (\A r \in Relays : cl.relay[r] = "failed") =>
              /\ cl.promise = "rejected" /\ cl.error = "SpspError"
              /\ cl.sub = "none" /\ cl.timeoutId = "none"
              /\ cl.resolveCalls = 0 /\ cl.log = << >>

\* C5 witness: one relay failed, another acknowledged, and the call resolved.
C5_Witness ==
    \E c \in Calls :
        /\ calls[c].relay["r1"] = "failed"
        /\ calls[c].relay["r2"] = "acked"
        /\ calls[c].promise = "fulfilled"

\* C6: from the moment a relay has accepted the request (the recipient can see
\* it) the response subscription of a pending call is open, so no response of
\* the recipient is emitted without a listener and the call does not time out
\* after the recipient answered.
C6_ListenerBeforeVisible ==
    \A c \in Calls :
        /\ Visible(c) /\ calls[c].promise = "pending" => calls[c].sub = "open"
        /\ ~calls[c].early

-----------------------------------------------------------------------------
(* Properties of the latest-record selection *)

Selecting ==
    {"trust.getFollows", "discovery.getFollows", "spsp.getSpspInfo"}

Authors(events) == {e.pubkey : e \in Range(events)}

EventsOf(events, a) == SelectSeq(events, LAMBDA e : e.pubkey = a)

IsMaximal(e, events) == \A x \in Range(events) : e.created_at >= x.created_at

\* Every ordering of a list of distinct events.
Orderings(events) ==
    {q \in [1..Len(events) -> Range(events)] : Range(q) = Range(events)}

\* The record an operation selects from a non-empty list.
SelectedBy(op, events) ==
    IF op = "trust.getFollows" THEN ReduceLatest(events) ELSE MostRecent(events)

Done(op) == selPc = "idle" /\ ret.op = op /\ ret.threw = "none"

\* C7: every latest-record selection returns, for a non-empty list of records
\* of one author and kind, a record of the list whose created_at is at least
\* that of every other record; every ordering of every list of up to MaxLen
\* distinct records is an input, so this holds for every order of return.
C7_LatestIsMaximal ==
    /\ \A op \in Selecting :
          Done(op) /\ ret.input # << >> =>
              /\ ret.latest \in Range(ret.input)
              /\ IsMaximal(ret.latest, ret.input)
    /\ Done("discovery.discoverPeers") =>
          /\ DOMAIN ret.eventsByPubkey = Authors(ret.input)
          /\ \A a \in Authors(ret.input) :
                /\ ret.eventsByPubkey[a] \in Range(EventsOf(ret.input, a))
                /\ IsMaximal(ret.eventsByPubkey[a], EventsOf(ret.input, a))

\* C7 witness: a follow-list lookup whose query returned the newest record
\* first and older ones after it.
C7_Witness ==
    /\ Done("discovery.getFollows")
    /\ Len(ret.input) = 3
    /\ ret.input[1].created_at > ret.input[2].created_at
    /\ ret.input[3].created_at < ret.input[1].created_at
    /\ ret.latest = ret.input[1]

\* C8: the record selected as the latest is the same for every ordering of
\* the same list of records, also when several share the maximal created_at.
C8_TieOrderIndependent ==
    /\ \A op \in Selecting :
          Done(op) /\ ret.input # << >> =>
              \A q \in Orderings(ret.input) : SelectedBy(op, q) = ret.latest
    /\ Done("discovery.discoverPeers") =>
          \A q \in Orderings(ret.input) : GroupLatestByPubkey(q) = ret.eventsByPubkey

\* The record of author a that discoverPeers keeps: the first returned among
\* those with the greatest created_at.
NewestOf(events, a) ==
    LET own == EventsOf(events, a)
        i == CHOOSE i \in 1..Len(own) :
                /\ IsMaximal(own[i], own)
                /\ \A j \in 1..(i - 1) : own[j].created_at < own[i].created_at
    IN own[i]

ValidOf(events, a) ==
    SelectSeq(events, LAMBDA e : e.pubkey = a /\ parseIlpPeerInfo(e).ok)

C10_ParseFailuresAbsorbed ==
    selPc = "idle" /\ ret.op = "discovery.discoverPeers" =>
        /\ ret.threw # "InvalidEventError"
        /\ ret.input # << >> => ret.threw = "none"
        /\ DOMAIN ret.peers \subseteq Authors(ret.input)
        /\ \A a \in Authors(ret.input) :
              LET alone == DiscoverResult(EventsOf(ret.input, a)).result IN
              /\ ValidOf(ret.input, a) = << >> => a \notin DOMAIN ret.peers
              /\ (a \in DOMAIN ret.peers) = (a \in DOMAIN alone)
              /\ a \in DOMAIN ret.peers =>
                    /\ ret.peers[a] = alone[a]
                    /\ \E e \in Range(ValidOf(ret.input, a)) :
                          ret.peers[a] = parseIlpPeerInfo(e).info

\* C10 witness: one author's only record is malformed, another author's record
\* is valid and in the result.
C10_Witness ==
    /\ Done("discovery.discoverPeers")
    /\ \E a, b \in Authors(ret.input) :
          /\ ValidOf(ret.input, a) = << >>
          /\ a \notin DOMAIN ret.peers
          /\ b \in DOMAIN ret.peers

-----------------------------------------------------------------------------
(* Properties of subscribeToPeerUpdates *)

\* Every order in which the events of a set can be delivered.
SetOrderings(S) == {q \in [1..Cardinality(S) -> S] : Range(q) = S}

\* A fresh subscription after the events of q were handed to its onevent.
RECURSIVE ReplayFrom(_, _, _)
ReplayFrom(q, i, st) ==
    IF i > Len(q) THEN st
    ELSE ReplayFrom(q, i + 1, OnPeerEvent(st.sub, st.timestamps, q[i]))

Replay(q) ==
    ReplayFrom(q, 1, [sub |-> [IdleSub EXCEPT !.pc = "open"],
                      timestamps |-> NoTimestamps])

\* The last created_at and info handed to the callback, per author.
LastHanded(callbacks) ==
    [a \in DOMAIN callbacks |->
        [created_at |-> callbacks[a].created_at, info |-> callbacks[a].info]]

DeliveredOf(s, a) == {e \in subs[s].delivered : e.pubkey = a}

\* C11: in every step in which a subscription's callback is invoked for an
\* author, the created_at of the event is strictly greater than the last-seen
\* created_at of that author in that subscription and than the created_at of
\* the event of the author's previous callback; an equal or older event never
\* reaches the callback.
C11_Step ==
    \A s \in Subs :
        \A a \in DOMAIN subs'[s].callbacks :
            LET before == subs[s].callbacks
                now == subs'[s].callbacks[a]
                invoked == a \notin DOMAIN before \/ before[a] # now
            IN invoked =>
                  /\ now.created_at > LastSeen(peerTimestamps[Scope(s)], a)
                  /\ a \in DOMAIN before => now.created_at > before[a].created_at

C11_CallbackStrictlyNewer == [][C11_Step]_vars

\* C11 witness: an author's event of created_at 1 was delivered after the
\* author's event of created_at 2 and did not reach the callback.
C11_Witness ==
    \E s \in Subs :
        \E a \in DOMAIN subs[s].callbacks :
            /\ subs[s].callbacks[a].n = 1
            /\ subs[s].callbacks[a].created_at = 2
            /\ \E e \in DeliveredOf(s, a) :
                  e.created_at = 1 /\ parseIlpPeerInfo(e).ok

\* C12: for the set of events delivered to a subscription, the last info
\* handed to the callback and the last-seen timestamp of every author are the
\* same for every order of delivery, and they are those of the author's event
\* with the greatest created_at.
C12_FinalLatestOrderIndependent ==
    \A s \in Subs :
        subs[s].pc = "open" =>
            /\ \A q \in SetOrderings(subs[s].delivered) :
                  /\ Replay(q).timestamps = peerTimestamps[Scope(s)]
                  /\ LastHanded(Replay(q).sub.callbacks) = LastHanded(subs[s].callbacks)
            /\ \A e \in subs[s].delivered :
                  (\A x \in DeliveredOf(s, e.pubkey) : e.created_at >= x.created_at) =>
                      /\ LastSeen(peerTimestamps[Scope(s)], e.pubkey) = e.created_at
                      /\ parseIlpPeerInfo(e).ok =>
                            /\ e.pubkey \in DOMAIN subs[s].callbacks
                            /\ subs[s].callbacks[e.pubkey].info = parseIlpPeerInfo(e).info

\* C13: the callbacks and the last-seen timestamps of a subscription are those
\* of a fresh subscription that was handed this subscription's own events, in
\* some order, and nothing else; a subscription without deliveries has no
\* last-seen entry.
C13_ScopedToSubscription ==
    \A s \in Subs :
        subs[s].pc = "open" =>
            \E q \in SetOrderings(subs[s].delivered) :
                /\ Replay(q).timestamps = peerTimestamps[Scope(s)]
                /\ Replay(q).sub.callbacks = subs[s].callbacks

\* C13 witness: the second subscription's callback got an event older than
\* what the first subscription has seen of the same author.
C13_Witness ==
    /\ subs["s1"].pc = "open" /\ subs["s2"].pc = "open"
    /\ \E a \in DOMAIN subs["s2"].callbacks :
          subs["s2"].callbacks[a].created_at < LastSeen(peerTimestamps["s1"], a)

\* C14: once unsubscribe() has been called the callback is not invoked again,
\* whatever the transport delivers, and subCloser.close() has been called
\* exactly once, however often unsubscribe() is called.
C14_State ==
    \A s \in Subs :
        subs[s].pc = "open" =>
            /\ subs[s].unsubscribes = "none" =>
                  ~subs[s].isUnsubscribed /\ subs[s].closeCalls = 0
            /\ subs[s].unsubscribes # "none" =>
                  subs[s].isUnsubscribed /\ subs[s].closeCalls = 1

C14_Step ==
    \A s \in Subs :
        subs[s].unsubscribes # "none" => subs'[s].callbacks = subs[s].callbacks

C14_UnsubscribeIdempotent == []C14_State /\ [][C14_Step]_vars

\* C14 witness: unsubscribe() was called twice on a subscription that had
\* received events, and an event arrived after it.
C14_Witness ==
    \E s \in Subs :
        /\ subs[s].unsubscribes = "repeated"
        /\ subs[s].late
        /\ subs[s].closeCalls = 1
        /\ DOMAIN subs[s].callbacks # {}

-----------------------------------------------------------------------------
(* Properties of the credit computation *)

Min(a, b) == IF a <= b THEN a ELSE b

\* C15: creditLimit = min(maxCreditLimit, base + min(mutualFollowers *
\* mutualFollowerBonus, maxMutualBonus) + (followsUs and isFollowed ? base/2 :
\* 0)) with base the credit of a followed or an unfollowed peer, and score =
\* floor(creditLimit * 100 / maxCreditLimit); with the default configuration a
\* followed peer with 10 mutual followers and no reverse follow gets 1500 and
\* score 15.
C15_CreditFormula ==
    scored.done =>
        LET config == scored.config
            r == scored.result
            base == IF r.isFollowed THEN config.baseCreditForFollowed
                    ELSE config.baseCreditForUnfollowed
            bonus == Min(r.mutualFollowers * config.mutualFollowerBonus,
                         config.maxMutualBonus)
            back == IF r.followsUs /\ r.isFollowed THEN base \div 2 ELSE 0
        IN /\ r.creditLimit = Min(config.maxCreditLimit, base + bonus + back)
           /\ r.score = (r.creditLimit * 100) \div config.maxCreditLimit
           /\ (config = DEFAULT_CONFIG /\ r.isFollowed /\ ~r.followsUs
                 /\ r.mutualFollowers = 10) =>
                    r.creditLimit = 1500 /\ r.score = 15

\* C15 witness: the default configuration, a followed peer with 10 mutual
\* followers and no reverse follow.
C15_Witness ==
    /\ scored.done
    /\ scored.config = DEFAULT_CONFIG
    /\ scored.result.isFollowed /\ ~scored.result.followsUs
    /\ scored.result.mutualFollowers = 10
    /\ scored.result.creditLimit = 1500

\* C16: with non-negative credit values and maxCreditLimit above 0 the
\* creditLimit is between 0 and maxCreditLimit and the score is an integer
\* between 0 and 100.
C16_CreditBounds ==
    scored.done =>
        /\ scored.result.creditLimit \in 0..scored.config.maxCreditLimit
        /\ scored.result.score \in 0..100

\* C16 witness: base, bonus and follow-back bonus together exceed
\* maxCreditLimit and the result is capped at it.
C16_Witness ==
    /\ scored.done
    /\ scored.result.creditLimit = scored.config.maxCreditLimit
    /\ scored.result.score = 100
    /\ scored.config.baseCreditForFollowed + scored.config.maxMutualBonus
          > scored.config.maxCreditLimit
    /\ scored.result.isFollowed /\ scored.result.mutualFollowers > 5

-----------------------------------------------------------------------------
(* Properties of the trust manager *)

\* The manager's pubkey is in the latest follow-list record of pk.
FollowsMe(pk) == graph[pk].exists /\ MyPubkey \in graph[pk].follows

Awaiting(t) == tasks[t].pc \in {"loadMyFollows", "getFollows"}

\* The pubkey whose follow list the caller's outstanding query asks for.
Awaited(task) == IF task.pc = "loadMyFollows" THEN MyPubkey ELSE task.peer

\* C17: a computeTrust call made after initialize() completed, with any
\* clearCache() and computeTrust() calls in between, returns followsUs = TRUE
\* exactly when the manager's pubkey is in the subject's latest follow list.
C17_FollowsUsMatchesGraph ==
    \A t \in Tasks :
        (tasks[t].op = "computeTrust" /\ tasks[t].pc = "done"
           /\ tasks[t].afterInitialize) =>
              tasks[t].result.followsUs = FollowsMe(tasks[t].peer)

\* C18: a follow-set lookup of a cached pubkey issues no relay query and is
\* served the cached set, also when the set is empty; a lookup of a pubkey
\* that is not cached queries the relays; an entry leaves the cache only in a
\* clearCache(), which empties it.
C18_Step ==
    /\ \A t \in Tasks :
          /\ (tasks'[t] # tasks[t] /\ tasks'[t].pc \in {"loadMyFollows", "getFollows"}) =>
                ~(Awaited(tasks'[t]) \in DOMAIN followGraphCache')
          /\ (tasks'[t] # tasks[t] /\ tasks'[t].op = "computeTrust"
                /\ tasks'[t].pc = "done") =>
                /\ tasks'[t].served = "cache" =>
                      /\ tasks[t].pc # "getFollows"
                      /\ tasks'[t].peer \in DOMAIN followGraphCache'
                      /\ tasks'[t].peerFollows = followGraphCache'[tasks'[t].peer]
                /\ tasks'[t].served = "query" => tasks[t].pc = "getFollows"
    /\ \A pk \in DOMAIN followGraphCache :
          \/ pk \in DOMAIN followGraphCache'
          \/ DOMAIN followGraphCache' = {} /\ myFollows' = {} /\ myFollowers' = {}

StepsOf(admin) ==
    {"validate", "query", "spsp", "publish"} \cup
    (IF admin THEN {"addPeer", "addRoute"} ELSE {})

Logged(k, op, at) ==
    \E i \in DOMAIN boot.log :
        /\ boot.log[i].seed = k
        /\ boot.log[i].op = op
        /\ boot.log[i].at = at

\* Every step of seed k succeeded.
FullySucceeded(k) == \A op \in StepsOf(connector.set) : Logged(k, op, "ok")

RECURSIVE SucceededFrom(_)
SucceededFrom(k) ==
    IF k > Len(knownPeers) THEN << >>
    ELSE IF FullySucceeded(k) THEN <<knownPeers[k]>> \o SucceededFrom(k + 1)
    ELSE SucceededFrom(k + 1)

ReturnedSeeds == [i \in DOMAIN boot.results |-> boot.results[i].knownPeer]

\* C19: bootstrap() never rejects because of a seed's failure, and what it
\* returns is the results of exactly the seeds of which every step succeeded,
\* in the order of the list.
C19_ReturnsSucceededSeeds ==
    /\ boot.pc # "failed"
    /\ boot.threw = "none"
    /\ boot.pc = "done" => ReturnedSeeds = SucceededFrom(1)

\* Three seeds, the second with a malformed pubkey: the first and the third
\* are returned.
C19_Witness ==
    /\ boot.pc = "done"
    /\ Len(knownPeers) = 3
    /\ ~PUBKEY_REGEX(knownPeers[2].pubkey)
    /\ ReturnedSeeds = <<knownPeers[1], knownPeers[3]>>

Attempts(k) ==
    Cardinality({i \in DOMAIN boot.log :
                    boot.log[i].seed = k /\ boot.log[i].op = "validate"})

Starts(k, op) ==
    Cardinality({i \in DOMAIN boot.log :
                    /\ boot.log[i].seed = k
                    /\ boot.log[i].op = op
                    /\ boot.log[i].at = "start"})

\* C20: the seeds are processed one after the other in the order of the
\* list: an operation is started only when the one before it has completed
\* and never for an earlier seed, every seed is attempted once, no operation
\* is started twice, and when bootstrap() returns every seed was attempted.
C20_SeedsSequentialOnce ==
    /\ \A i, j \in DOMAIN boot.log :
          i < j => boot.log[i].seed <= boot.log[j].seed
    /\ \A i \in DOMAIN boot.log :
          boot.log[i].at = "start" /\ i < Len(boot.log) =>
              /\ boot.log[i + 1].seed = boot.log[i].seed
              /\ boot.log[i + 1].op = boot.log[i].op
              /\ boot.log[i + 1].at \in {"ok", "failed"}
    /\ \A k \in DOMAIN knownPeers :
          /\ Attempts(k) <= 1
          /\ \A op \in StepsOf(TRUE) : Starts(k, op) <= 1
          /\ boot.pc = "done" => Attempts(k) = 1

\* The first of three seeds failed in an awaited operation and the two after
\* it were attempted, the last one to the end.
C20_Witness ==
    /\ boot.pc = "done"
    /\ Len(knownPeers) = 3
    /\ \E op \in {"query", "spsp", "addPeer", "addRoute", "publish"} :
          Logged(1, op, "failed")
    /\ Attempts(2) = 1
    /\ FullySucceeded(3)

\* The steps of bootstrapWithPeer in their order, the connector's only when
\* an admin client is set.
StepOrder(admin) ==
    IF admin THEN <<"validate", "query", "spsp", "addPeer", "addRoute", "publish">>
    ELSE <<"validate", "query", "spsp", "publish">>

\* The log entries of seed k, in order.
SeedLog(k) ==
    LET OfSeed(e) == e.seed = k IN SelectSeq(boot.log, OfSeed)

\* The steps of seed k that completed, in order.
Completions(k) ==
    LET Completed(e) == e.at # "start" IN SelectSeq(SeedLog(k), Completed)

CaughtOf(k) == {i \in DOMAIN boot.caught : boot.caught[i].seed = k}

\* C21: the steps of a seed run in the fixed order validation, query, SPSP
\* exchange, addPeer and addRoute (with an admin client), publish; a step
\* runs only when all the steps before it succeeded; the first failing
\* step is the last step of the seed and bootstrapWithPeer rejects with a
\* BootstrapError, so that the seed is not among the results.
C21_StepsInOrder ==
    \A k \in DOMAIN knownPeers :
        LET order == StepOrder(connector.set)
            done == Completions(k)
            slog == SeedLog(k)
        IN /\ Len(done) <= Len(order)
           /\ \A i \in DOMAIN done :
                 /\ done[i].op = order[i]
                 /\ done[i].at = "failed" => i = Len(done)
           /\ \A i \in DOMAIN slog :
                 slog[i].at = "start" =>
                     /\ \A j \in 1..(i - 1) : slog[j].at # "failed"
                     /\ \E n \in DOMAIN order :
                           /\ order[n] = slog[i].op
                           /\ \A m \in 1..(n - 1) : Logged(k, order[m], "ok")
           /\ IF \E op \in StepsOf(TRUE) : Logged(k, op, "failed")
              THEN /\ Cardinality(CaughtOf(k)) = 1
                   /\ \A i \in CaughtOf(k) :
                         boot.caught[i].error.name = "BootstrapError"
                   /\ slog[Len(slog)].at = "failed"
                   /\ \A i \in DOMAIN boot.results :
                         boot.results[i].knownPeer # knownPeers[k]
                         \/ \E j \in DOMAIN knownPeers :
                               j # k /\ knownPeers[j] = knownPeers[k]
              ELSE CaughtOf(k) = {}

\* With an admin client, one seed went through all six steps and another
\* was aborted by addRoute after addPeer had succeeded.
C21_Witness ==
    /\ boot.pc = "done"
    /\ connector.set
    /\ \E k, l \in DOMAIN knownPeers :
          /\ FullySucceeded(k)
          /\ Logged(l, "addPeer", "ok")
          /\ Logged(l, "addRoute", "failed")

TransportOps == {"query", "spsp", "publish"}

\* C22: every transport operation started for a seed (the peer-info query,
\* the SPSP exchange, whose client publishes and subscribes on the relay
\* list it is constructed with, and the publish of the own peer info) is
\* given the relay list made of that seed's relay URL alone.
C22_OnlyTheSeedsRelay ==
    \A i \in DOMAIN boot.log :
        boot.log[i].at = "start" /\ boot.log[i].op \in TransportOps =>
            boot.log[i].relays = {knownPeers[boot.log[i].seed].relayUrl}

\* Two seeds with different relays both got their query, SPSP exchange and
\* publish.
C22_Witness ==
    \E k, l \in DOMAIN knownPeers :
        /\ knownPeers[k].relayUrl # knownPeers[l].relayUrl
        /\ \A op \in TransportOps : Logged(k, op, "ok") /\ Logged(l, op, "ok")

\* A string of exactly 64 characters, each a digit or a letter a-f.
WellFormed(str) == str.n = 64 /\ str.ch \in HexLower

\* No operation of the bootstrap log was started for seed k.
NothingStartedFor(b, k) ==
    \A i \in DOMAIN b.log : b.log[i].seed = k => b.log[i].at # "start"

\* C23: an operation called with a pubkey that is not 64 lowercase
\* hexadecimal characters fails in the call itself, with the error of its
\* class, and has issued no query, publish or subscription: requestSpspInfo
\* and getSpspInfo (SpspError), getFollows, discoverPeers and
\* subscribeToPeerUpdates (PeerDiscoveryError), bootstrapWithPeer
\* (BootstrapError).
C23_Step ==
    /\ \A pk \in RecipientArgs :
          ~WellFormed(pk) =>
              /\ RequestSpspInfo("c1", pk) =>
                    /\ calls'["c1"].promise = "rejected"
                    /\ calls'["c1"].error = "SpspError"
                    /\ calls'["c1"].sub = "none"
                    /\ \A r \in Relays : calls'["c1"].relay[r] = "none"
              /\ GetSpspInfo(pk) =>
                    /\ selPc' = "idle" /\ pending' = NoPending
                    /\ ret'.threw = "SpspError"
              /\ \A op \in {"discovery.getFollows", "discovery.discoverPeers"} :
                    DiscGetFollows(op, pk) =>
                        /\ selPc' = "idle" /\ pending' = NoPending
                        /\ ret'.threw = "PeerDiscoveryError"
              /\ SubscribeToPeerUpdates("s1", pk) =>
                    /\ subs'["s1"].pc = "failed"
                    /\ subs'["s1"].threw = "PeerDiscoveryError"
                    /\ subs'["s1"].follows = << >>
    /\ \A k \in DOMAIN knownPeers :
          ~WellFormed(knownPeers[k].pubkey) =>
              /\ NothingStartedFor(boot', k)
              /\ boot'.k > k =>
                    \E i \in DOMAIN boot'.caught :
                        /\ boot'.caught[i].seed = k
                        /\ boot'.caught[i].error.name = "BootstrapError"

C23_InvalidPubkeyRejectedFirst == [][C23_Step]_vars

\* Each of the operations was called with a malformed pubkey and failed.
C23_Witness ==
    /\ calls["c1"].error = "SpspError" /\ calls["c1"].sub = "none"
    /\ ret.threw \in {"SpspError", "PeerDiscoveryError"} /\ ~WellFormed(ret.pubkey)
    /\ subs["s1"].threw = "PeerDiscoveryError"
    /\ boot.caught # << >>

RoundTrip ==
    codec.pc = "parsed" /\ codec.op \in {"buildIlpPeerInfoEvent", "buildSpspInfoEvent"}

\* C24: the parser applied to the event a builder made of a valid value
\* returns that value: the same members with the same values, and no
\* settlementEngine when the value has none.
C24_ParseInvertsBuild ==
    RoundTrip =>
        /\ codec.out.ok
        /\ codec.out.info = codec.info
        /\ DOMAIN codec.out.info = DOMAIN codec.info

\* An IlpPeerInfo without settlementEngine went through the builder and the
\* parser.
C24_Witness ==
    /\ RoundTrip
    /\ codec.op = "buildIlpPeerInfoEvent"
    /\ "settlementEngine" \notin DOMAIN codec.info
    /\ codec.out.ok

\* The member k of the content is a non-empty string.
HasString(content, k) ==
    /\ k \in DOMAIN content.fields
    /\ content.fields[k].t = "string"
    /\ content.fields[k].v # ""

\* The event is one the parser has to reject: wrong kind, content that is no
\* JSON or no JSON object, a required string missing or empty, an assetScale
\* that is no integer, a settlementEngine that is no string.
Malformed(op, event) ==
    LET c == event.content IN
    IF op = "parseIlpPeerInfo"
    THEN \/ event.kind # 10032
         \/ c.json # "object"
         \/ \E k \in {"ilpAddress", "btpEndpoint", "assetCode"} : ~HasString(c, k)
         \/ "assetScale" \notin DOMAIN c.fields
         \/ c.fields["assetScale"].t # "number"
         \/ ~c.fields["assetScale"].whole
         \/ /\ "settlementEngine" \in DOMAIN c.fields
            /\ c.fields["settlementEngine"].t # "string"
    ELSE \/ event.kind # 10047
         \/ c.json # "object"
         \/ \E k \in {"destinationAccount", "sharedSecret"} : ~HasString(c, k)

ResultMembers(op) ==
    IF op = "parseIlpPeerInfo"
    THEN {"ilpAddress", "btpEndpoint", "assetCode", "assetScale", "settlementEngine"}
    ELSE {"destinationAccount", "sharedSecret"}

ParsedAlone ==
    codec.pc = "parsed" /\ codec.op \in {"parseIlpPeerInfo", "parseSpspInfo"}

\* C25: a parser throws, returning nothing, for an event of the wrong kind,
\* content that is no JSON or no JSON object, a required string that is
\* missing or empty, an assetScale that is no integer and a settlementEngine
\* that is no string; what it returns for another event has the members of
\* its type only, with the values of the content.
C25_MalformedRejected ==
    ParsedAlone =>
        IF Malformed(codec.op, codec.event)
        THEN ~codec.out.ok /\ DOMAIN codec.out = {"ok"}
        ELSE /\ codec.out.ok
             /\ DOMAIN codec.out.info =
                   ResultMembers(codec.op) \cap DOMAIN codec.event.content.fields
             /\ \A k \in DOMAIN codec.out.info :
                   codec.out.info[k] = codec.event.content.fields[k].v

\* parseIlpPeerInfo rejected a content whose assetScale is not a whole
\* number.
C25_Witness ==
    /\ ParsedAlone
    /\ codec.op = "parseIlpPeerInfo"
    /\ codec.event.kind = 10032
    /\ "assetScale" \in DOMAIN codec.event.content.fields
    /\ codec.event.content.fields["assetScale"].t = "number"
    /\ ~codec.event.content.fields["assetScale"].whole
    /\ ~codec.out.ok

\* C26: getSpspInfo touches no request/response exchange; called with a
\* well-formed pubkey it issues one query and returns null when the query
\* returned nothing, and otherwise what parseSpspInfo makes of a record with
\* the greatest created_at among those returned, null when that record is
\* malformed; it throws, a SpspError, only in the call with a malformed
\* pubkey and when the query fails.
C26_Step ==
    (ret' # ret /\ ret'.op = "spsp.getSpspInfo") =>
        /\ calls' = calls
        /\ subs' = subs
        /\ IF ret'.threw # "none"
           THEN /\ ret'.threw = "SpspError"
                /\ ~ret'.isNull
                /\ IF selPc = "idle" THEN ~WellFormed(ret'.pubkey)
                   ELSE WellFormed(ret'.pubkey) /\ queried = << >>
           ELSE /\ selPc = "query"
                /\ WellFormed(ret'.pubkey)
                /\ IF queried = << >> THEN ret'.isNull
                   ELSE /\ ret'.latest \in Range(queried)
                        /\ IsMaximal(ret'.latest, queried)
                        /\ ret'.isNull = ~parseSpspInfo(ret'.latest).ok
                        /\ ~ret'.isNull => ret'.info = parseSpspInfo(ret'.latest).info

C26_StaticInfoOrNull == [][C26_Step]_vars

\* getSpspInfo returned null because the most recent of several records is
\* malformed.
C26_Witness ==
    /\ ret.op = "spsp.getSpspInfo"
    /\ ret.isNull
    /\ Len(ret.input) > 1
    /\ ~parseSpspInfo(ret.latest).ok

\* The server can decrypt the request: it is encrypted with the key the
\* server shares with its author.
Decrypts(e) ==
    /\ WellFormed(e.pubkey)
    /\ e.content.key = {Key("a"), e.pubkey}

\* The responses published that carry the id of request e.
ResponsesTo(e) ==
    {i \in DOMAIN server.published : server.published[i].tags[2] = <<"e", e.id>>}

ValidRequest(e) ==
    /\ e.content.plaintext.json = "object"
    /\ e.content.plaintext.method = "spsp_setup"

\* C28: for a request that cannot be decrypted, or whose plaintext is no
\* valid request, no parameters are generated, no response is published
\* and no error leaves the subscription callback.
C28_MalformedRequestIgnored ==
    /\ ~server.escaped
    /\ \A n \in DOMAIN server.handled :
          LET e == server.handled[n] IN
          ~Decrypts(e) \/ ~ValidRequest(e) =>
              /\ \A i \in DOMAIN server.generated : server.generated[i] # e.id
              /\ ResponsesTo(e) = {}

\* C29: when refreshFollowList() has returned, the followed set is the set
\* of the p-tag targets of a follow-list record with the greatest created_at
\* among those the query returned, and it is empty when the query returned
\* none.
C29_FollowSetReplaced ==
    service.pc = "idle" /\ service.completed = "refreshFollowList" =>
        IF service.input = << >> THEN service.followedPubkeys = {}
        ELSE \E e \in Range(service.input) :
                /\ IsMaximal(e, service.input)
                /\ service.followedPubkeys = Range(PTagValues(e.tags))

\* The entries of the result of discoverPeers for author a.
EntriesOf(a) == {i \in DOMAIN service.peers : service.peers[i].info.pubkey = a}

\* The records of author a, among those the query returned, that the parser
\* accepts.
ParseableOf(a) ==
    {e \in Range(EventsOf(service.input, a)) : parseIlpPeerInfoTags(e).ok}

\* C30: the result of discoverPeers has at most one entry for an author, and
\* that entry is built from a record with the greatest created_at among the
\* well-formed records of the author that the query returned; a superseded
\* record of the author does not appear.
C30_LatestPeerInfoPerAuthor ==
    service.pc = "idle" /\ service.completed = "discoverPeers" =>
        \A a \in Authors(service.input) :
            /\ Cardinality(EntriesOf(a)) <= 1
            /\ \A i \in EntriesOf(a) :
                  \A e \in ParseableOf(a) :
                      service.peers[i].info.createdAt >= e.created_at

\* The created_at values of the well-formed events of author a that were
\* handed to subscription s.
ValidTimesOf(s, a) ==
    {e.created_at : e \in {x \in DeliveredOf(s, a) : parseIlpPeerInfo(x).ok}}

\* C34: an event that fails parsing does not advance the last-seen timestamp
\* of its author: the last-seen value of an author in a subscription is the
\* greatest created_at of the well-formed events of the author handed to it
\* (none recorded when there is no such event), so an older valid event that
\* arrives after a malformed one still reaches the callback.
C34_MalformedLeavesLastSeen ==
    \A s \in Subs :
        subs[s].pc = "open" =>
            \A a \in Range(subs[s].follows) :
                /\ \A t \in ValidTimesOf(s, a) :
                      LastSeen(peerTimestamps[Scope(s)], a) >= t
                /\ LastSeen(peerTimestamps[Scope(s)], a) \in ValidTimesOf(s, a) \cup {0}

\* The peer ids of the seeds in the result list of bootstrap().
ResultPeerIds == {PeerId(boot.results[i].knownPeer) : i \in DOMAIN boot.results}

\* C37: when bootstrap() has returned, every peer and every route registered
\* with the connector admin client is that of a seed in the returned result
\* list.
C37_OnlySucceededSeedsRegistered ==
    boot.pc = "done" =>
        /\ connector.peers \subseteq ResultPeerIds
        /\ \A route \in connector.routes : route[2] \in ResultPeerIds

\* The responses in the arrival log of call c that decrypt, validate and carry
\* the request id of call d.
AnswersIn(c, d) ==
    {i \in DOMAIN calls[c].log :
        /\ parseSpspResponse(calls[c].log[i]).ok
        /\ parseSpspResponse(calls[c].log[i]).requestId = calls[d].requestId}

\* Two calls are outstanding at the same time.
BothOutstanding(c, d) ==
    c # d /\ calls[c].requestId # "" /\ calls[d].requestId # ""

C40_State ==
    \A c \in Calls : \A d \in Calls \ {c} :
        /\ BothOutstanding(c, d) => calls[c].requestId # calls[d].requestId
        /\ calls[c].promise = "fulfilled" =>
              \E i \in AnswersIn(c, c) :
                  calls[c].value =
                      [destinationAccount |-> calls[c].log[i].payload.destinationAccount,
                       sharedSecret |-> calls[c].log[i].payload.sharedSecret]
        /\ calls[c].pc = "waiting" => AnswersIn(c, c) = {}

C40_Step ==
    \A c \in Calls : \A d \in Calls \ {c} :
        ( /\ calls[c].pc = "waiting"
          /\ Len(calls'[c].log) = Len(calls[c].log) + 1
          /\ parseSpspResponse(calls'[c].log[Len(calls'[c].log)]).ok
          /\ parseSpspResponse(calls'[c].log[Len(calls'[c].log)]).requestId
                = calls[d].requestId )
        => calls'[c].pc = "waiting" /\ calls'[c].promise = "pending"

\* C40: calls outstanding at the same time have different request ids; a call
\* resolves only with the fields of a response that carries its own request
\* id; and a valid response that carries the request id of the other call
\* leaves a waiting call waiting.
C40_NoCrossResolution == []C40_State /\ [][C40_Step]_vars

\* C40 witness: both calls went to the same recipient; one resolved with its
\* own response while the other, which was handed that response too, still
\* waits.
C40_Witness ==
    \E c \in Calls : \E d \in Calls \ {c} :
        /\ calls[c].recipientPubkey = calls[d].recipientPubkey
        /\ calls[c].promise = "fulfilled"
        /\ calls[d].pc = "waiting"
        /\ AnswersIn(d, c) # {}

\* The credit limit computeTrust(p) returns in the present state of the
\* manager, for a peer whose follow set is cached.
CreditOfComputeTrust(p) ==
    Lookup([IdleTask EXCEPT !.op = "computeTrust", !.peer = p],
           followGraphCache, myFollows, myFollowers).result.creditLimit

\* C36: in every state of the manager in which its own follows are loaded,
\* for every peer whose follow set is cached, the trust calculator applied to
\* the peer and to whether the peer is followed returns the credit limit
\* computeTrust returns for the peer.
C36_CalculatorAgrees ==
    myFollows # {} =>
        \A p \in Peers :
            CacheHit(followGraphCache, p) =>
                TrustCalculator(DEFAULT_CONFIG, followGraphCache, myFollows,
                                myFollowers, p, p \in myFollows)
                    = CreditOfComputeTrust(p)

\* The pubkeys whose follow set the step hands to caller t from the cache: the
\* peer of a computeTrust that is served the cached set, and the manager's own
\* pubkey when computeTrust finds myFollows empty and its set cached.
ServedFromCache(t) ==
    (IF /\ tasks'[t] # tasks[t]
        /\ tasks'[t].op = "computeTrust"
        /\ tasks'[t].pc = "done"
        /\ tasks'[t].served = "cache"
     THEN {tasks'[t].peer} ELSE {})
    \cup
    (IF /\ Free(t)
        /\ tasks'[t] # tasks[t]
        /\ tasks'[t].op = "computeTrust"
        /\ tasks'[t].pc # "loadMyFollows"
        /\ myFollows = {}
     THEN {MyPubkey} ELSE {})

C39_Step == \A t \in Tasks : ServedFromCache(t) \cap staleKeys = {}

\* C39: no follow set that a call is served from the cache was stored by a
\* query that was issued before the last clearCache() call.
C39_ClearCacheCoversInFlight == [][C39_Step]_vars

\* A value that is a non-empty string.
NonEmpty(value) == value.t = "string" /\ value.v # ""

\* C32: every peer in the result of discoverPeers and every peer in the
\* service's cache has a non-empty ilpAddress and a non-empty btpEndpoint.
C32_AddressAndEndpointNonEmpty ==
    /\ \A i \in DOMAIN service.peers :
          /\ NonEmpty(service.peers[i].info.ilpAddress)
          /\ NonEmpty(service.peers[i].info.btpEndpoint)
    /\ \A a \in DOMAIN service.peerInfoCache :
          /\ NonEmpty(service.peerInfoCache[a].ilpAddress)
          /\ NonEmpty(service.peerInfoCache[a].btpEndpoint)

\* The records of author a, among those the query returned, that have a
\* non-empty ilp value and a non-empty btp value.
WellFormedOf(a) ==
    {e \in ParseableOf(a) :
        /\ NonEmpty(parseIlpPeerInfoTags(e).info.ilpAddress)
        /\ NonEmpty(parseIlpPeerInfoTags(e).info.btpEndpoint)}

\* C35: when discoverPeers has returned, the cache entry of an author is not
\* older than any well-formed record of the author that the call processed:
\* a record with an older createdAt never replaces a newer one in the cache.
C35_CacheHoldsNewest ==
    service.pc = "idle" /\ service.completed = "discoverPeers" =>
        \A a \in Authors(service.input) :
            \A e \in WellFormedOf(a) :
                /\ a \in DOMAIN service.peerInfoCache
                /\ service.peerInfoCache[a].createdAt >= e.created_at

\* The subscriptions of the server that are open.
OpenSubscriptions == server.opened - server.closed

C33_State == OpenSubscriptions = IF server.subscription THEN 1 ELSE 0

C33_Step ==
    /\ (StartListening /\ server.subscription) => server' = server
    /\ (StartListening /\ ~server.subscription) =>
          server'.opened = server.opened + 1 /\ server'.closed = server.closed
    /\ ((StopListening \/ Close) /\ server.subscription) =>
          /\ server'.closed = server.closed + 1
          /\ server'.opened = server.opened
          /\ ~server'.subscription
    /\ ((StopListening \/ Close) /\ ~server.subscription) =>
          /\ server'.closed = server.closed
          /\ server'.opened = server.opened
          /\ ~server'.subscription

\* C33: the server has at most one open subscription, the one it holds in
\* this.subscription; startListening() opens one only when none is open,
\* stopListening() and close() close the open one once and do nothing when
\* none is open.
C33_OneSubscription == []C33_State /\ [][C33_Step]_vars

\* C33 witness: a subscription was opened, closed, and a fresh one is open.
C33_Witness ==
    server.opened = 2 /\ server.closed = 1 /\ server.subscription

------------------------------------------------------------------------------
(* NostrSpspClient.requestSpspParams: the encrypted request and its response *)

\* The events the response subscription can receive: the relays apply the
\* filter (kind, author, #e tag), the content is whatever the author sent.
ParamsResponses ==
    {[cipher |-> "garbled", json |-> "result"],
     [cipher |-> "valid", json |-> "invalid"],
     [cipher |-> "valid", json |-> "result"],
     [cipher |-> "valid", json |-> "error"],
     [cipher |-> "valid", json |-> "empty"]}

\* nip44.decrypt and JSON.parse both return.
ParsesResponse(ev) == ev.cipher = "valid" /\ ev.json # "invalid"

\* resolve(response) of the promise waitForResponse returns.
ResolveResponse(cl, r) ==
    IF cl.promise = "pending"
    THEN [cl EXCEPT !.promise = "fulfilled", !.response = r,
                    !.resolveCalls = @ + 1]
    ELSE [cl EXCEPT !.resolveCalls = @ + 1]

\* reject(e) of the promise waitForResponse returns.
RejectResponse(cl, e) ==
    IF cl.promise = "pending"
    THEN [cl EXCEPT !.promise = "rejected", !.error = e,
                    !.rejectCalls = @ + 1]
    ELSE [cl EXCEPT !.rejectCalls = @ + 1]

\* The executor of waitForResponse: setTimeout, then subscribeMany.
waitForResponse(cl) ==
    [cl EXCEPT !.timeoutId = "armed", !.sub = "open"]

\* onevent of waitForResponse: the timer and the subscription are torn down
\* first, then the content is decrypted and parsed.
WaitOnEvent(cl, ev) ==
    LET torn == SubClose(ClearTimeout(cl)) IN
    IF ParsesResponse(ev) THEN ResolveResponse(torn, ev.json)
    ELSE RejectResponse(torn, "DecryptError")

\* The setTimeout callback of waitForResponse.
WaitOnTimeout(cl) ==
    RejectResponse(SubClose(cl), "Timeout")

\* requestSpspParams from `await responsePromise` on.
AwaitResponse(cl) ==
    IF cl.pc # "waiting" \/ cl.promise = "pending" THEN cl
    ELSE IF cl.promise = "rejected"
    THEN [cl EXCEPT !.pc = "done", !.outcome = cl.error]
    ELSE IF cl.response = "error"
    THEN [cl EXCEPT !.pc = "done", !.outcome = "RequestFailed"]
    ELSE IF cl.response # "result"
    THEN [cl EXCEPT !.pc = "done", !.outcome = "MissingResult"]
    ELSE [cl EXCEPT !.pc = "done", !.outcome = "returned"]

\* requestSpspParams(receiverPubkey, ...) up to `await this.pool.publish`.
RequestSpspParams(c, rp) ==
    /\ calls[c].pc = "idle"
    /\ calls' = [calls EXCEPT ![c] =
          waitForResponse([@ EXCEPT !.pc = "publishing",
                                    !.recipientPubkey = rp,
                                    !.requestId = c])]
    /\ UNCHANGED <<secretKey, selVars, restVars>>

\* `await this.pool.publish(this.relays, signedEvent)` returns.
ParamsPublished(c) ==
    /\ calls[c].pc = "publishing"
    /\ calls' = [calls EXCEPT ![c] = AwaitResponse([@ EXCEPT !.pc = "waiting"])]
    /\ UNCHANGED <<secretKey, selVars, restVars>>

\* `await this.pool.publish(this.relays, signedEvent)` throws: the call
\* rejects with the error of publish.
ParamsPublishThrows(c) ==
    /\ calls[c].pc = "publishing"
    /\ calls' = [calls EXCEPT ![c] =
          [@ EXCEPT !.pc = "done", !.outcome = "PublishError"]]
    /\ UNCHANGED <<secretKey, selVars, restVars>>

\* The transport hands an event to onevent of waitForResponse.
DeliverParamsResponse(c, ev) ==
    /\ calls[c].sub # "none"
    /\ Len(calls[c].log) < MaxDeliveries
    /\ calls' = [calls EXCEPT ![c] =
          AwaitResponse(WaitOnEvent([@ EXCEPT !.log = Append(@, ev)], ev))]
    /\ UNCHANGED <<secretKey, selVars, restVars>>

\* The timer set by waitForResponse fires.
ParamsTimerFire(c) ==
    /\ calls[c].timeoutId = "armed"
    /\ calls' = [calls EXCEPT ![c] =
          AwaitResponse(WaitOnTimeout([@ EXCEPT !.timeoutId = "fired"]))]
    /\ UNCHANGED <<secretKey, selVars, restVars>>

NextParams ==
    \E c \in {"c1"} :
        \/ \E rp \in {Key("a"), Key("b")} : RequestSpspParams(c, rp)
        \/ ParamsPublished(c)
        \/ ParamsPublishThrows(c)
        \/ \E ev \in ParamsResponses : DeliverParamsResponse(c, ev)
        \/ ParamsTimerFire(c)

SpecParams == InitConcurrent /\ [][NextParams]_vars

\* C31: a response that cannot be decrypted or parsed is discarded: while
\* only such responses have arrived and the timer has not fired, the call
\* still waits with its subscription open and its timer armed; the first
\* response that decrypts and parses resolves the waiting promise.
C31_BadResponseDiscarded ==
    \A c \in Calls :
        LET log == calls[c].log IN
        calls[c].timeoutId # "fired" =>
            /\ (log # << >> /\ \A i \in 1..Len(log) : ~ParsesResponse(log[i])) =>
                  /\ calls[c].promise = "pending"
                  /\ calls[c].sub = "open"
                  /\ calls[c].timeoutId = "armed"
            /\ \A i \in 1..Len(log) :
                  (ParsesResponse(log[i]) /\ \A j \in 1..(i - 1) : ~ParsesResponse(log[j])) =>
                      /\ calls[c].promise = "fulfilled"
                      /\ calls[c].response = log[i].json

C38_Step ==
    \A c \in Calls :
        /\ calls'[c].pc = "done" =>
              calls'[c].sub # "open" /\ calls'[c].timeoutId # "armed"
        /\ calls[c].outcome = "PublishError" =>
              calls'[c].rejectCalls = calls[c].rejectCalls

\* C38: when requestSpspParams has ended, the subscription and the timer that
\* waitForResponse opened before the publish are torn down; after a failed
\* publish no subscription stays open, no timer stays armed and no promise
\* of the call is rejected later.
C38_TornDownWhenCallEnds == [][C38_Step]_vars

====
